---- MODULE Spec2Model ----
(***************************************************************************)
(* Payment-email ingestion and reconciliation pipeline.                    *)
(*                                                                         *)
(*   src/automation/sync_robot.py   the scheduled robot                    *)
(*   src/pages/6_Payment_Sync.py    the interactive Streamlit page         *)
(*                                                                         *)
(* Python strings are modelled as sequences of one-character strings, so   *)
(* that replace, lower, upper, strip and the substring test are computed   *)
(* character by character. Python dicts are modelled as functions whose    *)
(* DOMAIN is the set of keys present.                                      *)
(*                                                                         *)
(* Seven specifications:                                                   *)
(*   Spec           both programs running against one inbox and one ledger *)
(*                  sheet, each provider call succeeding or failing        *)
(*   SpecReconcile  the reconciliation of main() applied twice to          *)
(*                  candidate lists and ledger snapshots of bounded size   *)
(*   SpecAgree      the reconciliations of the two programs applied to the *)
(*                  same candidates and snapshot                           *)
(*   SpecExtract    the amount and sender extraction applied to texts put  *)
(*                  together from fragments                                *)
(*   SpecParse      parse_interac_email of both programs applied to        *)
(*                  message resources of varying shape                     *)
(*   SpecAuth       get_gmail_service of both programs applied to every    *)
(*                  state of the stored token                              *)
(*   SpecRuns       robot runs one after the other, each over its own      *)
(*                  candidates                                             *)
(***************************************************************************)
EXTENDS Integers, Sequences, FiniteSets, TLC

(***************************************************************************)
(* Text                                                                    *)
(***************************************************************************)
UpperChars == <<"A","B","C","D","E","F","G","H","I","J","K","L","M",
                "N","O","P","Q","R","S","T","U","V","W","X","Y","Z">>
LowerChars == <<"a","b","c","d","e","f","g","h","i","j","k","l","m",
                "n","o","p","q","r","s","t","u","v","w","x","y","z">>

Digits == {"0","1","2","3","4","5","6","7","8","9"}
Punctuation == {" ", "\t", "\n", "\r", "$", ",", ".", "_", "-", "/", ":",
                "<", ">", "(", ")", "+", "'", "!", "?", "=", "&", ";"}
Alphabet ==
    {UpperChars[i] : i \in 1..26} \cup {LowerChars[i] : i \in 1..26}
        \cup Digits \cup Punctuation

\* str.lower() / str.upper(), one character at a time
LowerTable ==
    [c \in Alphabet |->
        IF \E i \in 1..26 : UpperChars[i] = c
        THEN LowerChars[CHOOSE i \in 1..26 : UpperChars[i] = c]
        ELSE c]
UpperTable ==
    [c \in Alphabet |->
        IF \E i \in 1..26 : LowerChars[i] = c
        THEN UpperChars[CHOOSE i \in 1..26 : LowerChars[i] = c]
        ELSE c]
StrLower(s) == [i \in 1..Len(s) |-> LowerTable[s[i]]]
StrUpper(s) == [i \in 1..Len(s) |-> UpperTable[s[i]]]

IsSpace(c) == c \in {" ", "\t", "\n", "\r"}

\* str.strip(): leading and trailing whitespace removed
RECURSIVE StrLStrip(_)
StrLStrip(s) ==
    IF s # <<>> /\ IsSpace(Head(s)) THEN StrLStrip(Tail(s)) ELSE s
RECURSIVE StrRStrip(_)
StrRStrip(s) ==
    IF s # <<>> /\ IsSpace(s[Len(s)]) THEN StrRStrip(SubSeq(s, 1, Len(s) - 1)) ELSE s
StrStrip(s) == StrRStrip(StrLStrip(s))

\* str.replace(ch, ''): every occurrence of the character ch removed
StrRemoveChar(s, ch) == SelectSeq(s, LAMBDA c : c # ch)

\* sub in s
StrContains(s, sub) ==
    \E i \in 1..(Len(s) - Len(sub) + 1) : SubSeq(s, i, i + Len(sub) - 1) = sub

TRIPIC == <<"T","R","I","P","I","C">>
CARTAGENA == <<"C","A","R","T","A","G","E","N","A">>
DrTripic == <<"D","r","."," ","T","r","i","p","i","c">>
DrCartagena == <<"D","r","."," ","C","a","r","t","a","g","e","n","a">>
Unknown == <<"U","n","k","n","o","w","n">>
ZeroAmount == <<"0",".","0","0">>
Underscore == <<"_">>

(***************************************************************************)
(* Text extraction of parse_interac_email (re.search, leftmost match)      *)
(***************************************************************************)
IsDigit(c) == c \in Digits

\* the character at position i, "" past the end
At(t, i) == IF i >= 1 /\ i <= Len(t) THEN t[i] ELSE ""

\* \s* from position i: the first position that holds no whitespace
RECURSIVE SkipSpace(_, _)
SkipSpace(t, i) == IF IsSpace(At(t, i)) THEN SkipSpace(t, i + 1) ELSE i

\* the literal lit at position i, letter case ignored
LiteralAt(t, i, lit) ==
    /\ i + Len(lit) - 1 <= Len(t)
    /\ \A j \in 1..Len(lit) : LowerTable[t[i + j - 1]] = LowerTable[lit[j]]

\* (?:,\d{3})* from position q: the position after the last group
RECURSIVE GroupsEnd(_, _)
GroupsEnd(t, q) ==
    IF At(t, q) = "," /\ IsDigit(At(t, q + 1)) /\ IsDigit(At(t, q + 2))
            /\ IsDigit(At(t, q + 3))
    THEN GroupsEnd(t, q + 4)
    ELSE q

\* \d{1,3}(?:,\d{3})*(?:\.\d{2}) anchored at position i: the position of the
\* last character matched, 0 when there is no match. A match takes the whole
\* run of leading digits (one to three) and every complete ",ddd" group,
\* since what follows either must be "," or ".".
NumberEnd(t, i) ==
    LET r == IF ~IsDigit(At(t, i)) THEN 0
             ELSE IF ~IsDigit(At(t, i + 1)) THEN 1
             ELSE IF ~IsDigit(At(t, i + 2)) THEN 2
             ELSE IF ~IsDigit(At(t, i + 3)) THEN 3
             ELSE 4
        q == GroupsEnd(t, i + r)
    IN  IF r \in 1..3 /\ At(t, q) = "." /\ IsDigit(At(t, q + 1))
                /\ IsDigit(At(t, q + 2))
        THEN q + 2
        ELSE 0

NoMatch == <<0, 0>>

\* Pattern 1: \$\s*(NUM) anchored at position i: <<start, end>> of group 1
Pattern1At(t, i) ==
    IF At(t, i) # "$" THEN NoMatch
    ELSE LET j == SkipSpace(t, i + 1)
         IN  IF NumberEnd(t, j) = 0 THEN NoMatch ELSE <<j, NumberEnd(t, j)>>

\* Pattern 2: (NUM)\s*(?:CAD|CDN), re.IGNORECASE
Pattern2At(t, i) ==
    LET e == NumberEnd(t, i)
        j == SkipSpace(t, e + 1)
    IN  IF e # 0 /\ (LiteralAt(t, j, <<"C","A","D">>) \/ LiteralAt(t, j, <<"C","D","N">>))
        THEN <<i, e>>
        ELSE NoMatch

\* \$?\s*(NUM) from position j
OptionalDollarNumber(t, j) ==
    LET k == IF At(t, j) = "$" THEN j + 1 ELSE j
        n == SkipSpace(t, k)
    IN  IF NumberEnd(t, n) = 0 THEN NoMatch ELSE <<n, NumberEnd(t, n)>>

\* Pattern 3: sent you\s+\$?\s*(NUM), re.IGNORECASE
Pattern3At(t, i) ==
    IF LiteralAt(t, i, <<"s","e","n","t"," ","y","o","u">>) /\ IsSpace(At(t, i + 8))
    THEN OptionalDollarNumber(t, SkipSpace(t, i + 8))
    ELSE NoMatch

\* Pattern 4: Amount:?\s*\$?\s*(NUM), re.IGNORECASE
Pattern4At(t, i) ==
    IF LiteralAt(t, i, <<"A","m","o","u","n","t">>)
    THEN OptionalDollarNumber(t, SkipSpace(t, IF At(t, i + 6) = ":" THEN i + 7 ELSE i + 6))
    ELSE NoMatch

PatternAt(n, t, i) ==
    CASE n = 1 -> Pattern1At(t, i)
      [] n = 2 -> Pattern2At(t, i)
      [] n = 3 -> Pattern3At(t, i)
      [] n = 4 -> Pattern4At(t, i)

\* re.search(pattern n, t): group 1 of the leftmost match, NoMatch if none
RECURSIVE SearchFrom(_, _, _)
SearchFrom(n, t, i) ==
    IF i > Len(t) THEN NoMatch
    ELSE IF PatternAt(n, t, i) # NoMatch THEN PatternAt(n, t, i)
    ELSE SearchFrom(n, t, i + 1)

\* mutant: the match that starts first in the text wins, whatever its pattern
LeftmostOfAll(n, t) ==
    LET hits == {<<i, k>> \in (1..Len(t)) \X (n..4) : PatternAt(k, t, i) # NoMatch}
    IN  IF hits = {} THEN NoMatch
        ELSE LET h == CHOOSE x \in hits :
                        \A y \in hits : x[1] < y[1] \/ (x[1] = y[1] /\ x[2] <= y[2])
             IN  PatternAt(h[2], t, h[1])

\* amount_match = pattern 1, else 2, else 3, else 4;
\* amount = amount_match.group(1) if amount_match else "0.00"
RECURSIVE FirstPattern(_, _)
FirstPattern(n, t) ==
    IF n > 4 THEN NoMatch
    ELSE IF SearchFrom(n, t, 1) # NoMatch THEN SearchFrom(n, t, 1)
    ELSE FirstPattern(n + 1, t)

\* mutant: the capture is turned into a plain number, separators dropped
ExtractAmountPlain(t) ==
    LET m == FirstPattern(1, t)
    IN  IF m = NoMatch THEN ZeroAmount
        ELSE StrRemoveChar(SubSeq(t, m[1], m[2]), ",")

\* mutant: no amount at all when no pattern matches
ExtractAmountOrNothing(t) ==
    LET m == FirstPattern(1, t)
    IN  IF m = NoMatch THEN <<>> ELSE SubSeq(t, m[1], m[2])

ExtractAmount(t) ==
    LET m == FirstPattern(1, t)
    IN  IF m = NoMatch THEN ZeroAmount ELSE SubSeq(t, m[1], m[2])

\* [\d\.,]+ from position i: the position after the run
RECURSIVE AmountCharsEnd(_, _)
AmountCharsEnd(t, i) ==
    IF IsDigit(At(t, i)) \/ At(t, i) \in {".", ","}
    THEN AmountCharsEnd(t, i + 1)
    ELSE i

\* (.*?) and  from position q, the capture starting at position from: the
\* first position where " and" follows, with no line break before it
RECURSIVE LazyUntilAnd(_, _)
LazyUntilAnd(t, q) ==
    IF LiteralAt(t, q, <<" ","a","n","d">>) THEN q
    ELSE IF q > Len(t) \/ t[q] = "\n" THEN 0
    ELSE LazyUntilAnd(t, q + 1)

\* received \$[\d\.,]+ from (.*?) and , re.IGNORECASE, anchored at position i
SenderAt(t, i) ==
    LET lit == <<"r","e","c","e","i","v","e","d"," ","$">>
        a == i + Len(lit)
        b == AmountCharsEnd(t, a)
        from == <<" ","f","r","o","m"," ">>
        c == b + Len(from)
    IN  IF LiteralAt(t, i, lit) /\ b > a /\ LiteralAt(t, b, from)
                /\ LazyUntilAnd(t, c) # 0
        THEN <<c, LazyUntilAnd(t, c) - 1>>
        ELSE NoMatch

RECURSIVE SenderSearchFrom(_, _)
SenderSearchFrom(t, i) ==
    IF i > Len(t) THEN NoMatch
    ELSE IF SenderAt(t, i) # NoMatch THEN SenderAt(t, i)
    ELSE SenderSearchFrom(t, i + 1)

\* mutant: the token stays
RemoveNothing(s) == s

\* str.replace("Interac", "")
RECURSIVE RemoveInterac(_)
RemoveInterac(s) ==
    LET word == <<"I","n","t","e","r","a","c">>
    IN  IF s = <<>> THEN <<>>
        ELSE IF Len(s) >= Len(word) /\ SubSeq(s, 1, Len(word)) = word
        THEN RemoveInterac(SubSeq(s, Len(word) + 1, Len(s)))
        ELSE <<Head(s)>> \o RemoveInterac(Tail(s))

\* mutant: the subject line is tried first
ExtractSenderSubjectFirst(text, subject) ==
    LET inText == SenderSearchFrom(text, 1)
        inSubject == SenderSearchFrom(subject, 1)
        name == IF inSubject # NoMatch
                THEN StrStrip(SubSeq(subject, inSubject[1], inSubject[2]))
                ELSE IF inText # NoMatch
                THEN StrStrip(SubSeq(text, inText[1], inText[2]))
                ELSE Unknown
    IN  IF StrContains(name, <<"I","n","t","e","r","a","c">>)
        THEN StrStrip(RemoveInterac(name))
        ELSE name

\* sender_match on the body text, else on the subject; .group(1).strip() or
\* "Unknown"; then the "Interac" clean-up
ExtractSender(text, subject) ==
    LET inText == SenderSearchFrom(text, 1)
        inSubject == SenderSearchFrom(subject, 1)
        name == IF inText # NoMatch
                THEN StrStrip(SubSeq(text, inText[1], inText[2]))
                ELSE IF inSubject # NoMatch
                THEN StrStrip(SubSeq(subject, inSubject[1], inSubject[2]))
                ELSE Unknown
    IN  IF StrContains(name, <<"I","n","t","e","r","a","c">>)
        THEN StrStrip(RemoveInterac(name))
        ELSE name

(***************************************************************************)
(* Markup and dates                                                        *)
(***************************************************************************)
IsLetter(c) == \E i \in 1..26 : c = UpperChars[i] \/ c = LowerChars[i]

\* html.parser: a tag opens at position i with "<x" (start tag) or "</" (end
\* tag, or a bogus comment when no letter follows); both run to the next ">"
TagOpensAt(t, i) ==
    /\ At(t, i) = "<"
    /\ (IsLetter(At(t, i + 1)) \/ At(t, i + 1) = "/")

\* the position of the next ">" from position i on, 0 when there is none
RECURSIVE TagCloses(_, _)
TagCloses(t, i) ==
    IF i > Len(t) THEN 0
    ELSE IF t[i] = ">" THEN i
    ELSE TagCloses(t, i + 1)

\* the text nodes of the markup from position i on; cur is the node being read
RECURSIVE TextNodes(_, _, _)
TextNodes(t, i, cur) ==
    IF i > Len(t) THEN (IF cur = <<>> THEN <<>> ELSE <<cur>>)
    ELSE IF TagOpensAt(t, i) /\ TagCloses(t, i) # 0
    THEN (IF cur = <<>> THEN <<>> ELSE <<cur>>) \o TextNodes(t, TagCloses(t, i) + 1, <<>>)
    ELSE TextNodes(t, i + 1, Append(cur, t[i]))

RECURSIVE JoinWithSpace(_)
JoinWithSpace(nodes) ==
    IF nodes = <<>> THEN <<>>
    ELSE IF Len(nodes) = 1 THEN nodes[1]
    ELSE nodes[1] \o <<" ">> \o JoinWithSpace(Tail(nodes))

\* BeautifulSoup(body_data, 'html.parser').get_text(separator=' '), for markup
\* made of plain start and end tags: the text nodes joined by one space
GetText(body_data) == JoinWithSpace(TextNodes(body_data, 1, <<>>))

DigitChars == <<"0","1","2","3","4","5","6","7","8","9">>
Pad2(n) == <<DigitChars[((n \div 10) % 10) + 1], DigitChars[(n % 10) + 1]>>
\* the digits of n, not padded, as %Y of strftime (glibc) prints the year
RECURSIVE NatToStr(_)
NatToStr(n) ==
    IF n < 10 THEN <<DigitChars[n + 1]>>
    ELSE NatToStr(n \div 10) \o <<DigitChars[(n % 10) + 1]>>

\* strftime("%d/%m/%Y %H:%M:%S")
Strftime(dt) ==
    Pad2(dt.day) \o <<"/">> \o Pad2(dt.month) \o <<"/">> \o NatToStr(dt.year)
        \o <<" ">> \o Pad2(dt.hour) \o <<":">> \o Pad2(dt.minute) \o <<":">>
        \o Pad2(dt.second)

\* datetime.fromtimestamp(secs) for secs >= 0, the process running in UTC
FromTimestamp(secs) ==
    LET days == secs \div 86400
        rem == secs % 86400
        z == days + 719468
        era == z \div 146097
        doe == z - era * 146097
        yoe == (doe - doe \div 1460 + doe \div 36524 - doe \div 146096) \div 365
        doy == doe - (365 * yoe + yoe \div 4 - yoe \div 100)
        mp == (5 * doy + 2) \div 153
        d == doy - (153 * mp + 2) \div 5 + 1
        m == IF mp < 10 THEN mp + 3 ELSE mp - 9
        y == yoe + era * 400 + (IF m <= 2 THEN 1 ELSE 0)
    IN  [year |-> y, month |-> m, day |-> d, hour |-> rem \div 3600,
         minute |-> (rem % 3600) \div 60, second |-> rem % 60]

DayNames ==
    << <<"m","o","n">>, <<"t","u","e">>,
       <<"w","e","d">>, <<"t","h","u">>,
       <<"f","r","i">>, <<"s","a","t">>,
       <<"s","u","n">> >>
MonthNames ==
    << <<"j","a","n">>, <<"f","e","b">>,
       <<"m","a","r">>, <<"a","p","r">>,
       <<"m","a","y">>, <<"j","u","n">>,
       <<"j","u","l">>, <<"a","u","g">>,
       <<"s","e","p">>, <<"o","c","t">>,
       <<"n","o","v">>, <<"d","e","c">> >>
\* the index in names of the three letters at position i, case ignored; 0 if none
NameIndex(t, i, names) ==
    LET hit == {k \in 1..Len(names) : LiteralAt(t, i, names[k])}
    IN  IF hit = {} THEN 0 ELSE CHOOSE k \in hit : TRUE

DigitValue(c) == CHOOSE v \in 0..9 : DigitChars[v + 1] = c
\* one or two digits at position i: <<value, position after>>, <<-1, i>> if none
Number12(t, i) ==
    IF ~IsDigit(At(t, i)) THEN <<-1, i>>
    ELSE IF ~IsDigit(At(t, i + 1)) THEN <<DigitValue(t[i]), i + 1>>
    ELSE <<10 * DigitValue(t[i]) + DigitValue(t[i + 1]), i + 2>>

IsLeap(y) == (y % 4 = 0 /\ y % 100 # 0) \/ y % 400 = 0
DaysInMonth(y, m) ==
    IF m = 2 THEN (IF IsLeap(y) THEN 29 ELSE 28)
    ELSE IF m \in {4, 6, 9, 11} THEN 30 ELSE 31

NoDate == [year |-> 0]

\* datetime.strptime(s, "%a, %d %b %Y %H:%M:%S"): the datetime, NoDate when
\* strptime raises ValueError
Strptime(s) ==
    LET wd == NameIndex(s, 1, DayNames)
        p1 == SkipSpace(s, 5)
        day == Number12(s, p1)
        p2 == SkipSpace(s, day[2])
        mon == NameIndex(s, p2, MonthNames)
        p3 == SkipSpace(s, p2 + 3)
        yearOk == \A k \in 0..3 : IsDigit(At(s, p3 + k))
        year == 1000 * DigitValue(s[p3]) + 100 * DigitValue(s[p3 + 1])
                    + 10 * DigitValue(s[p3 + 2]) + DigitValue(s[p3 + 3])
        p4 == SkipSpace(s, p3 + 4)
        hh == Number12(s, p4)
        mm == Number12(s, hh[2] + 1)
        ss == Number12(s, mm[2] + 1)
    IN  IF /\ wd # 0 /\ At(s, 4) = "," /\ p1 > 5
           /\ day[1] \in 1..31 /\ p2 > day[2]
           /\ mon # 0 /\ p3 > p2 + 3
           /\ yearOk /\ p4 > p3 + 4
           /\ hh[1] \in 0..23 /\ At(s, hh[2]) = ":"
           /\ mm[1] \in 0..59 /\ At(s, mm[2]) = ":"
           /\ ss[1] \in 0..59 /\ ss[2] = Len(s) + 1
           /\ year >= 1 /\ day[1] <= DaysInMonth(year, mon)
        THEN [year |-> year, month |-> mon, day |-> day[1], hour |-> hh[1],
              minute |-> mm[1], second |-> ss[1]]
        ELSE NoDate

(***************************************************************************)
(* Reconciliation, as both main() functions compute it                     *)
(***************************************************************************)

\* amt = str(row[2]).replace('$','').replace(',','')
LedgerAmount(row) == StrRemoveChar(StrRemoveChar(row[3], "$"), ",")
\* snd = str(row[1]).lower().strip()
LedgerSender(row) == StrStrip(StrLower(row[2]))
\* mutant: the key of a row keeps the amount as the sheet returns it
LedgerKeyRawAmount(row) == row[3] \o Underscore \o LedgerSender(row)
\* key = f"{amt}_{snd}"
LedgerKey(row) == LedgerAmount(row) \o Underscore \o LedgerSender(row)
\* key_strict = f"{row[0]}_{amt}_{snd}"     (interactive page only)
LedgerKeyStrict(row) ==
    row[1] \o Underscore \o LedgerAmount(row) \o Underscore \o LedgerSender(row)

\* mutant: the first row is keyed like the rows below it
KeyedRowsFromFirst(existing_data) ==
    {i \in 1..Len(existing_data) : Len(existing_data[i]) > 2}

\* mutant: only rows that have the payee column are keyed
KeyedRowsWithPayee(existing_data) ==
    {i \in 2..Len(existing_data) : Len(existing_data[i]) > 3}

\* for row in existing_data[1:]: if len(row) > 2: ...
\* Python's index 0 is index 1 here: the first row is skipped.
KeyedRows(existing_data) ==
    {i \in 2..Len(existing_data) : Len(existing_data[i]) > 2}

RobotExistingKeys(existing_data) ==
    {LedgerKey(existing_data[i]) : i \in KeyedRows(existing_data)}

PageExistingKeys(existing_data) ==
    {LedgerKey(existing_data[i]) : i \in KeyedRows(existing_data)}
        \cup {LedgerKeyStrict(existing_data[i]) : i \in KeyedRows(existing_data)}

\* mutant: the candidate's amount keeps its thousands commas
PaymentKeyKeepsCommas(p) ==
    p.amount \o Underscore \o StrStrip(StrLower(p.sender))

\* p_amt = str(p['amount']).replace(',','') ; p_snd = str(p['sender']).lower().strip()
PaymentKey(p) ==
    StrRemoveChar(p.amount, ",") \o Underscore \o StrStrip(StrLower(p.sender))

\* mutant: the two lookups in the other order
DoctorCartagenaFirst(sender) ==
    IF StrContains(StrUpper(sender), CARTAGENA) THEN DrCartagena
    ELSE IF StrContains(StrUpper(sender), TRIPIC) THEN DrTripic
    ELSE Unknown

\* doctor = "Unknown"; if "TRIPIC" in upper: ...; elif "CARTAGENA" in upper: ...
Doctor(sender) ==
    IF StrContains(StrUpper(sender), TRIPIC) THEN DrTripic
    ELSE IF StrContains(StrUpper(sender), CARTAGENA) THEN DrCartagena
    ELSE Unknown

\* new_rows.append([p['date'], p['sender'], p['amount'], doctor])
RobotRow(p) == <<p.date, p.sender, p.amount, Doctor(p.sender)>>

\* mutant: an accepted row's key is not added to the rejection set
RECURSIVE RobotLoopForgetsKey(_, _, _, _)
RobotLoopForgetsKey(found_payments, i, existing_keys, new_rows) ==
    IF i > Len(found_payments) THEN new_rows
    ELSE LET p == found_payments[i]
         IN  IF PaymentKey(p) \notin existing_keys
             THEN RobotLoopForgetsKey(found_payments, i + 1, existing_keys,
                                      Append(new_rows, RobotRow(p)))
             ELSE RobotLoopForgetsKey(found_payments, i + 1, existing_keys, new_rows)

\* the robot's loop "for p in found_payments", from index i on
RECURSIVE RobotLoop(_, _, _, _)
RobotLoop(found_payments, i, existing_keys, new_rows) ==
    IF i > Len(found_payments) THEN new_rows
    ELSE LET p == found_payments[i]
             key == PaymentKey(p)
         IN  IF key \notin existing_keys
             THEN RobotLoop(found_payments, i + 1, existing_keys \cup {key},
                            Append(new_rows, RobotRow(p)))
             ELSE RobotLoop(found_payments, i + 1, existing_keys, new_rows)

RobotNewRows(found_payments, existing_data) ==
    RobotLoop(found_payments, 1, RobotExistingKeys(existing_data), <<>>)

\* p_entry = p.copy(); p_entry['doctor'] = doctor
PageEntry(p) ==
    [k \in DOMAIN p \cup {"doctor"} |->
        IF k = "doctor" THEN Doctor(p.sender) ELSE p[k]]

\* mutant: an accepted entry is put in front of the earlier ones
RECURSIVE PageLoopPrepends(_, _, _, _)
PageLoopPrepends(found_payments, i, existing_keys, new_payments) ==
    IF i > Len(found_payments) THEN new_payments
    ELSE LET p == found_payments[i]
             key == PaymentKey(p)
         IN  IF key \notin existing_keys
             THEN PageLoopPrepends(found_payments, i + 1, existing_keys \cup {key},
                                   <<PageEntry(p)>> \o new_payments)
             ELSE PageLoopPrepends(found_payments, i + 1, existing_keys, new_payments)

\* the page's loop "for p in found_payments", from index i on
RECURSIVE PageLoop(_, _, _, _)
PageLoop(found_payments, i, existing_keys, new_payments) ==
    IF i > Len(found_payments) THEN new_payments
    ELSE LET p == found_payments[i]
             key == PaymentKey(p)
         IN  IF key \notin existing_keys
             THEN PageLoop(found_payments, i + 1, existing_keys \cup {key},
                           Append(new_payments, PageEntry(p)))
             ELSE PageLoop(found_payments, i + 1, existing_keys, new_payments)

PageNewPayments(found_payments, existing_data) ==
    PageLoop(found_payments, 1, PageExistingKeys(existing_data), <<>>)

\* df_display = df_new[["date","sender","amount","doctor"]]; .values.tolist()
DisplayRows(new_payments) ==
    [i \in 1..Len(new_payments) |->
        <<new_payments[i].date, new_payments[i].sender,
          new_payments[i].amount, new_payments[i].doctor>>]

(***************************************************************************)
(* Text values used by the message pool and by the reconciliation inputs   *)
(***************************************************************************)
JohnSmith == <<"J","o","h","n"," ","S","m","i","t","h">>
AnaTripic == <<"A","n","a"," ","T","r","i","p","i","c">>
anaTripicPadded == <<" ","a","n","a"," ","t","r","i","p","i","c"," ">>
MCartagena == <<"M"," ","c","a","r","t","A","G","E","N","A">>
CartagenaTripic == <<"C","A","R","T","A","G","E","N","A","-","t","r","i","p","i","c">>
Amt100 == <<"1","0","0",".","0","0">>
Amt100short == <<"1","0","0",".","0">>
Amt1000comma == <<"1",",","0","0","0",".","0","0">>
Amt1000plain == <<"1","0","0","0",".","0","0">>
Amt1000dollar == <<"$","1",",","0","0","0",".","0","0">>
Amt75 == <<"7","5",".","0","0">>
Date0101 == <<"0","1","/","0","1","/","2","0","2","5"," ","1","0",":","0","0",":","0","0">>
Date0201 == <<"0","2","/","0","1","/","2","0","2","5"," ","0","9",":","0","0",":","0","0">>
HdrDate == <<"D","a","t","e">>
HdrSender == <<"S","e","n","d","e","r">>
HdrAmount == <<"A","m","o","u","n","t">>
HdrDoctor == <<"D","o","c","t","o","r">>

(***************************************************************************)
(* Messages of the mail provider, and parse_interac_email of both programs *)
(*                                                                         *)
(* A message resource is the dict that messages().get().execute() returns. *)
(* Base64 body data is modelled by the text it decodes to; internalDate,   *)
(* a string of milliseconds in the provider's answer, by its whole seconds.*)
(***************************************************************************)
\* Python's None
None == [none |-> TRUE]
\* messages().get(...).execute() raising instead of returning a resource
HttpError == [error |-> TRUE]

\* the outcome of an expression that yields a string or raises
Text(t) == [raised |-> FALSE, text |-> t]
Raised == [raised |-> TRUE, text |-> <<>>]

\* base64.urlsafe_b64decode(data).decode('utf-8')
Decode(data) == IF "utf8" \in DOMAIN data THEN Text(data.utf8) ELSE Raised

MessageIds == {"m1", "m2", "m3", "m4", "m5", "m6"}

\* The resources the provider holds: a plain-text message, a multipart one
\* whose HTML part holds the text, one in which no amount pattern matches,
\* one whose fetch fails, one with no body data but a snippet, and one whose
\* text sits in a nested part.
MsgPlain ==
    [payload |-> [headers |-> <<[name |-> "Subject",
           value |-> <<"I","n","t","e","r","a","c"," ","e","-","T","r","a","n","s","f","e","r">>],
          [name |-> "Date",
           value |-> <<"W","e","d",","," ","1"," ","J","a","n"," ","2","0","2","5"," ","1","0",":","0","0",":","0","0"," ","+","0","0","0","0">>]>>,
       body |-> [data |-> [utf8 |-> <<"r","e","c","e","i","v","e","d"," ","$","1","0","0",".","0","0"," ","f","r","o","m"," ","J","o","h","n"," ","S","m","i","t","h"," ","a","n","d"," ","d","e","p","o","s","i","t","e","d">>]]],
     internalDate |-> 1735725600,
     snippet |-> <<"r","e","c","e","i","v","e","d"," ","$","1","0","0",".","0","0">>]

MsgHtmlPart ==
    [payload |-> [headers |-> <<[name |-> "Date",
           value |-> <<"T","h","u",","," ","2"," ","J","a","n"," ","2","0","2","5"," ","0","9",":","0","0",":","0","0"," ","+","0","0","0","0">>],
          [name |-> "Subject",
           value |-> <<"Y","o","u"," ","r","e","c","e","i","v","e","d"," ","$","1",",","0","0","0",".","0","0"," ","f","r","o","m"," ","A","n","a"," ","T","r","i","p","i","c"," ","a","n","d"," ","m","o","r","e">>]>>,
       body |-> [size |-> 0],
       parts |-> <<[mimeType |-> "text/html",
           body |-> [data |-> [utf8 |-> <<"<","p",">","A","n","a"," ","s","e","n","t"," ","y","o","u"," ","1",",","0","0","0",".","0","0","<","/","p",">","<","p",">","d","e","p","o","s","i","t","e","d","<","/","p",">">>]]]>>],
     internalDate |-> 1735808400,
     snippet |-> <<"A","n","a"," ","s","e","n","t"," ","y","o","u">>]

MsgNoAmount ==
    [payload |-> [headers |-> <<[name |-> "Subject",
           value |-> <<"F","u","n","d","s"," ","d","e","p","o","s","i","t","e","d">>],
          [name |-> "Date",
           value |-> <<"W","e","d",","," ","1"," ","J","a","n"," ","2","0","2","5"," ","1","0",":","0","0",":","0","0"," ","+","0","0","0","0">>]>>,
       body |-> [data |-> [utf8 |-> <<"Y","o","u","r"," ","f","u","n","d","s"," ","a","r","e"," ","d","e","p","o","s","i","t","e","d">>]]],
     internalDate |-> 1735725600,
     snippet |-> <<"Y","o","u","r"," ","f","u","n","d","s">>]

MsgSnippetOnly ==
    [payload |-> [headers |-> <<[name |-> "Subject",
           value |-> <<"I","n","t","e","r","a","c"," ","e","-","T","r","a","n","s","f","e","r">>],
          [name |-> "Date",
           value |-> <<"n","o","t"," ","a"," ","d","a","t","e">>]>>,
       body |-> [size |-> 0]],
     internalDate |-> 1735808400,
     snippet |-> <<"r","e","c","e","i","v","e","d"," ","$","1","0","0",".","0","0"," ","f","r","o","m"," ","I","n","t","e","r","a","c"," ","J","o","h","n"," ","S","m","i","t","h"," ","a","n","d">>]

MsgNested ==
    [payload |-> [headers |-> <<[name |-> "Subject",
           value |-> <<"F","u","n","d","s"," ","d","e","p","o","s","i","t","e","d">>],
          [name |-> "Date",
           value |-> <<"T","h","u",","," ","2"," ","J","a","n"," ","2","0","2","5"," ","0","9",":","0","0",":","0","0"," ","+","0","0","0","0">>]>>,
       parts |-> <<[mimeType |-> "multipart/alternative",
           body |-> [size |-> 0],
           parts |-> <<[mimeType |-> "text/plain",
               body |-> [data |-> [utf8 |-> <<"D","e","p","o","s","i","t"," ","c","o","m","p","l","e","t","e">>]]]>>]>>],
     internalDate |-> 1735808400,
     snippet |-> <<"D","e","p","o","s","i","t">>]

Mailbox ==
    [id \in MessageIds |->
        CASE id = "m1" -> MsgPlain
          [] id = "m2" -> MsgHtmlPart
          [] id = "m3" -> MsgNoAmount
          [] id = "m4" -> HttpError
          [] id = "m5" -> MsgSnippetOnly
          [] id = "m6" -> MsgNested]

Min(a, b) == IF a < b THEN a ELSE b

\* for h in headers: if h['name'] == 'Subject': subject = h['value']
RECURSIVE RobotSubject(_, _, _)
RobotSubject(headers, i, subject) ==
    IF i > Len(headers) THEN subject
    ELSE RobotSubject(headers, i + 1,
                      IF headers[i].name = "Subject" THEN headers[i].value
                      ELSE subject)

\* if 'parts' in payload: data = payload.get('parts')[0]['body']['data']
\* else: data = payload['body']['data'] ; then the decoding
RobotBody(payload) ==
    IF "parts" \in DOMAIN payload
    THEN IF Len(payload.parts) = 0 THEN Raised
         ELSE LET parts == payload.parts[1]
              IN  IF "body" \notin DOMAIN parts THEN Raised
                  ELSE IF "data" \notin DOMAIN parts.body THEN Raised
                  ELSE Decode(parts.body.data)
    ELSE IF "body" \notin DOMAIN payload THEN Raised
    ELSE IF "data" \notin DOMAIN payload.body THEN Raised
    ELSE Decode(payload.body.data)

\* the robot's parse_interac_email from line 51 on, msg being what the fetch
\* of line 50 gave: the dict, or None when anything inside the try raised
RobotParseResource(msg) ==
        IF "error" \in DOMAIN msg THEN None
        ELSE IF "payload" \notin DOMAIN msg THEN None
        ELSE IF "headers" \notin DOMAIN msg.payload THEN None
        ELSE LET subject == RobotSubject(msg.payload.headers, 1, Unknown)
                 decoded_data == RobotBody(msg.payload)
             IN  IF decoded_data.raised THEN None
                 ELSE IF "internalDate" \notin DOMAIN msg THEN None
                 ELSE [date |-> Strftime(FromTimestamp(msg.internalDate)),
                       sender |-> ExtractSender(decoded_data.text, subject),
                       amount |-> ExtractAmount(decoded_data.text),
                       doctor |-> Unknown]

\* the robot's parse_interac_email(service, msg_id)
RobotParse(msg_id) == RobotParseResource(Mailbox[msg_id])

\* next(h['value'] for h in headers if h['name'] == name): the index of the
\* first such header, 0 when next() raises StopIteration
FirstHeader(headers, name) ==
    IF \E i \in 1..Len(headers) : headers[i].name = name
    THEN CHOOSE i \in 1..Len(headers) :
            /\ headers[i].name = name
            /\ \A j \in 1..(i - 1) : headers[j].name # name
    ELSE 0

\* the page's get_body_from_payload(payload), and its loop over the parts
RECURSIVE get_body_from_payload(_)
RECURSIVE PartsLoop(_, _)
get_body_from_payload(payload) ==
    IF "body" \in DOMAIN payload /\ "data" \in DOMAIN payload.body
    THEN Decode(payload.body.data)
    ELSE IF "parts" \in DOMAIN payload THEN PartsLoop(payload.parts, 1)
    ELSE Text(<<>>)

PartsLoop(parts, i) ==
    IF i > Len(parts) THEN Text(<<>>)
    ELSE LET part == parts[i]
         IN  IF "mimeType" \notin DOMAIN part THEN Raised
             ELSE IF part.mimeType = "text/html" THEN get_body_from_payload(part)
             ELSE IF part.mimeType = "text/plain" THEN get_body_from_payload(part)
             ELSE IF "parts" \in DOMAIN part
             THEN LET res == get_body_from_payload(part)
                  IN  IF res.raised \/ res.text # <<>> THEN res
                      ELSE PartsLoop(parts, i + 1)
             ELSE PartsLoop(parts, i + 1)

\* the page's parse_interac_email from line 118 on, message being what the
\* fetch of line 116 gave; now is what datetime.now() gives when the Date
\* header does not parse
PageParseResource(msg_id, message, now) ==
        IF "error" \in DOMAIN message THEN None
        ELSE IF "payload" \notin DOMAIN message THEN None
        ELSE IF "headers" \notin DOMAIN message.payload THEN None
        ELSE LET headers == message.payload.headers
                 s == FirstHeader(headers, "Subject")
                 d == FirstHeader(headers, "Date")
             IN  IF s = 0 \/ d = 0 THEN None
                 ELSE LET subject == headers[s].value
                          date_str == headers[d].value
                          parsed == Strptime(StrStrip(
                                      SubSeq(date_str, 1,
                                             Min(25, Len(date_str)))))
                          email_date == IF parsed = NoDate THEN now ELSE parsed
                          body == get_body_from_payload(message.payload)
                          body_data ==
                              IF body.text # <<>> THEN body.text
                              ELSE IF "snippet" \in DOMAIN message
                              THEN message.snippet ELSE <<>>
                          text_content == GetText(body_data)
                      IN  IF body.raised THEN None
                          ELSE [id |-> msg_id,
                                date |-> Strftime(email_date),
                                sender |-> ExtractSender(text_content, subject),
                                amount |-> ExtractAmount(text_content),
                                subject |-> subject,
                                raw_text |-> SubSeq(text_content, 1,
                                               Min(2000, Len(text_content)))]

\* the page's parse_interac_email(service, msg_id)
PageParse(msg_id, now) == PageParseResource(msg_id, Mailbox[msg_id], now)

\* what datetime.now() may give
Clock ==
    { [year |-> 2025, month |-> 1, day |-> 3, hour |-> 12, minute |-> 0, second |-> 0],
      [year |-> 2025, month |-> 1, day |-> 3, hour |-> 12, minute |-> 0, second |-> 5] }

\* what each program's parse_interac_email returns for each message
RobotParsed == [msg_id \in MessageIds |-> RobotParse(msg_id)]
PageParsed == [msg_id \in MessageIds |-> [now \in Clock |-> PageParse(msg_id, now)]]

\* mutant: a message that fails to parse loses the candidates found so far
KeepParsedLosesEarlier(found_payments, p) ==
    IF p # None THEN Append(found_payments, p) ELSE <<>>

\* if p: found_payments.append(p)      (a dict with keys is truthy)
KeepParsed(found_payments, p) ==
    IF p # None THEN Append(found_payments, p) ELSE found_payments

(***************************************************************************)
(* The pipeline: the scheduled robot and the interactive page, both        *)
(* working on one inbox and one ledger sheet                               *)
(***************************************************************************)
VARIABLES
    ledger,         \* the rows of worksheet "Payments", as get_all_values() gives them
    inbox,          \* the ids the query of messages().list() matches, in its order
    robot,          \* the scheduled robot: position and locals of its main()
    page,           \* the page: session state, widgets, position and locals of main()
    appended,       \* every append_rows call that added rows, in order
    reconciler,     \* "robot" or "page": whose main() does the reconciling
    candidates,     \* found_payments handed to the reconciliation
    snapshot,       \* existing_data = ws.get_all_values()
    newRows,        \* the rows the reconciliation reports as new
    stage,          \* "input", "first", "second" ("off" in the pipeline)
    extraction,     \* a text and a subject, and what the extraction makes of them
    parsing,        \* a message resource, and what each parser makes of it
    authentication  \* a stored token, and how each get_gmail_service() ends

pipeVars == <<ledger, inbox, robot, page, appended>>
recVars == <<reconciler, candidates, snapshot, newRows, stage>>
harnessVars == <<extraction, parsing, authentication>>
vars == <<ledger, inbox, robot, page, appended,
          reconciler, candidates, snapshot, newRows, stage,
          extraction, parsing, authentication>>

MaxInbox == 2
\* runs start as long as fewer than MaxAppends appends have been made
MaxAppends == 2

\* maxResults=20 of messages().list()
maxResults == 20

Payment(date, sender, amount) == [date |-> date, sender |-> sender, amount |-> amount]

\* The candidate of spec section 8, scenario 7.
ScenarioCandidate == Payment(Date0201, JohnSmith, Amt100)
\* The ledger row of spec section 8, scenario 7.
ScenarioRow == <<Date0101, JohnSmith, Amt100, DrTripic>>
HeaderRow == <<HdrDate, HdrSender, HdrAmount, HdrDoctor>>

SeqsUpTo(S, n) == UNION {[1..k -> S] : k \in 0..n}

\* the messages of the mailbox that the query may match, in the order in
\* which messages().list() returns them
MailOrder == <<"m3", "m4", "m5", "m2", "m1">>

\* the messages of the pool numbered by pick, in list order
RECURSIVE Listed(_, _)
Listed(pick, k) ==
    IF k > Len(MailOrder) THEN <<>>
    ELSE (IF k \in pick THEN <<MailOrder[k]>> ELSE <<>>) \o Listed(pick, k + 1)

\* an inbox holds up to MaxInbox messages of the pool, each once
Inboxes ==
    {Listed(pick, 1) : pick \in {q \in SUBSET (1..Len(MailOrder)) :
                                    Cardinality(q) <= MaxInbox}}

\* the sheet before the first run: never written, header only, or with a row
Ledgers == { <<>>, <<HeaderRow>>, <<HeaderRow, ScenarioRow>> }

\* build('gmail', 'v1', credentials=creds)
Service == [service |-> TRUE]
\* gc.open(...).worksheet("Payments")
Worksheet == [worksheet |-> TRUE]
\* st.stop() and st.rerun() end the script run by a control exception that
\* is not an Exception; an Exception is what "except Exception" catches
StopScript == [stop |-> TRUE]
RerunScript == [rerun |-> TRUE]
Raise == [raise |-> TRUE]

\* The stored token: none, not loadable, or credentials that are valid,
\* expired with or without a refresh token, or neither valid nor expired.
GmailTokens ==
    {"absent", "malformed", "valid", "expired_refreshable",
     "expired_no_refresh_token", "invalid"}

\* The service-account secret: none, one that cannot be used, a good one.
SheetSecrets == {"absent", "unusable", "ok"}

\* What the user does at the authorization UI of the page.
OAuthInputs ==
    {"no_client_config", "uploaded_file", "pasted_json",
     "no_code", "code_ok", "code_rejected"}

\* the robot's get_gmail_service(); buildOk tells whether build() returns
\* or raises: the build of line 32 is in no try block, that of line 40 is
\* in the try block of the refresh
RobotGmailService(token, refreshOk, buildOk) ==
    IF token = "valid" THEN (IF buildOk THEN Service ELSE Raise)
    ELSE IF token = "expired_refreshable" /\ refreshOk /\ buildOk THEN Service
    ELSE None

\* how the robot's get_gmail_service() may end
RobotSessions ==
    {RobotGmailService(token, refreshOk, buildOk) :
        token \in GmailTokens, refreshOk \in BOOLEAN, buildOk \in BOOLEAN}

\* step 4 of the page's get_gmail_service(): new authentication
NewAuthentication(oauth) ==
    CASE oauth = "no_client_config" -> StopScript
      [] oauth = "uploaded_file" -> RerunScript
      [] oauth = "pasted_json" -> StopScript
      [] oauth = "no_code" -> StopScript
      [] oauth = "code_ok" -> RerunScript
      [] oauth = "code_rejected" -> None

\* the page's get_gmail_service(); the builds of lines 28 and 109 are in no
\* try block of the function, that of line 36 is in the try block of the
\* refresh; credentials that are neither valid nor refreshable pass steps
\* 2 to 4 and reach the build of line 109
PageGmailService(token, refreshOk, buildOk, oauth) ==
    IF token = "malformed" THEN Raise
    ELSE IF token = "valid" THEN (IF buildOk THEN Service ELSE Raise)
    ELSE IF token = "expired_refreshable"
    THEN IF refreshOk /\ buildOk THEN Service ELSE NewAuthentication(oauth)
    ELSE IF token = "absent" THEN NewAuthentication(oauth)
    ELSE IF buildOk THEN Service ELSE Raise

\* how the page's get_gmail_service() may end
PageSessions ==
    {PageGmailService(token, refreshOk, buildOk, oauth) :
        token \in GmailTokens, refreshOk \in BOOLEAN, buildOk \in BOOLEAN,
        oauth \in OAuthInputs}

\* the robot's get_google_sheet_worksheet()
get_google_sheet_worksheet(gcp) == IF gcp = "ok" THEN Worksheet ELSE None

\* the page's get_google_sheet_data()
get_google_sheet_data(gcp) ==
    IF gcp = "absent" THEN None
    ELSE IF gcp = "unusable" THEN Raise
    ELSE Worksheet

\* results.get('messages', []) of messages().list(..., maxResults=20)
ListMessages(ids) == SubSeq(ids, 1, Min(maxResults, Len(ids)))

\* The elements on screen after a script run are the buttons "cancel" and
\* "confirm", the data "editor", the prompts of the authorization UI
\* ("authorize"), the messages of st.success ("success") and of st.error:
\* "Authentication failed", "Could not connect" (to Google Sheet) and
\* "error" for "An error occurred".
\* the widgets: a button is True only in the script run its click triggers
StartClicked(trigger) == trigger = "start"
CancelClicked(trigger) == trigger = "cancel"
\* mutant: the save does not wait for the click
ConfirmNotAwaited(trigger) == TRUE
ConfirmClicked(trigger) == trigger = "confirm"

\* What the user may do in the data editor (num_rows="dynamic"): nothing,
\* replace the "0.00" amounts by the amount read from the mail, or delete
\* the rows.
Edits == {"none", "amount", "delete"}

\* edited_df.values.tolist()
EditedRows(rows, edits) ==
    IF edits = "amount"
    THEN [i \in 1..Len(rows) |->
            IF rows[i][3] = ZeroAmount THEN [rows[i] EXCEPT ![3] = Amt75]
            ELSE rows[i]]
    ELSE IF edits = "delete" THEN <<>>
    ELSE rows

\* mutant: the rows are sent one call per row and the calls after the first
\* are lost
AppendRowsStopsAfterFirst(values, rows) ==
    values \o SubSeq(rows, 1, Min(1, Len(rows)))
\* mutant: the batch is inserted above the values of the sheet
AppendRowsOnTop(values, rows) == rows \o values
\* ws.append_rows(rows): one call that adds the whole batch below the values
\* of the sheet
append_rows(values, rows) == values \o rows

RobotIdle ==
    [pc |-> "idle", messages |-> <<>>, i |-> 0,
     found_payments |-> <<>>, existing_data |-> <<>>, new_rows |-> <<>>,
     calls |-> <<>>, printed |-> "none"]

PageIdle ==
    [pc |-> "idle", sync_active |-> FALSE, trigger |-> "none",
     rendered |-> {}, messages |-> <<>>, i |-> 0,
     found_payments |-> <<>>, existing_data |-> <<>>, new_payments |-> <<>>,
     shown |-> <<>>, edits |-> "none", calls |-> <<>>]

RecOff ==
    /\ reconciler = "none"
    /\ candidates = <<>>
    /\ snapshot = <<>>
    /\ newRows = <<>>
    /\ stage = "off"

HarnessOff ==
    /\ extraction = [stage |-> "off"]
    /\ parsing = [stage |-> "off"]
    /\ authentication = [stage |-> "off"]

Init ==
    /\ ledger \in Ledgers
    /\ inbox \in Inboxes
    /\ robot = RobotIdle
    /\ page = PageIdle
    /\ appended = <<>>
    /\ RecOff
    /\ HarnessOff

\* the end of the robot's process: exit(1), the end of main(), or an
\* exception that nothing catches (status 1 and a traceback); line is the
\* failure the run printed, if any
Exit(code, line) ==
    [RobotIdle EXCEPT !.pc = IF code = 1 THEN "exit1" ELSE "done",
                      !.printed = line]

\* sync_robot.py main(), lines 149-163: the mail session and the query
RobotStart ==
    /\ robot.pc \in {"idle", "done", "exit1"}
    /\ Len(appended) < MaxAppends
    /\ \E service \in RobotSessions, listOk \in BOOLEAN :
          robot' =
            IF service = Raise THEN Exit(1, "Traceback")
            ELSE IF service = None THEN Exit(1, "Gmail Auth Failed")
            ELSE IF ~listOk THEN Exit(1, "Fatal Error")
            ELSE [RobotIdle EXCEPT !.pc = "parse", !.calls = <<"list">>,
                                   !.messages = ListMessages(inbox)]
    /\ UNCHANGED <<ledger, inbox, page, appended, recVars, harnessVars>>

\* lines 165-169: one turn of "for msg in messages"
RobotParseStep ==
    /\ robot.pc = "parse"
    /\ robot.i < Len(robot.messages)
    /\ robot' = [robot EXCEPT
                    !.i = @ + 1,
                    !.calls = Append(@, "get"),
                    !.found_payments =
                        KeepParsed(@, RobotParsed[robot.messages[robot.i + 1]])]
    /\ UNCHANGED <<ledger, inbox, page, appended, recVars, harnessVars>>

\* lines 172-206: the sheet session, the bulk read, the reconciliation
RobotSheets ==
    /\ robot.pc = "parse"
    /\ robot.i = Len(robot.messages)
    /\ \E gcp \in SheetSecrets, readOk \in BOOLEAN :
          LET ws == get_google_sheet_worksheet(gcp)
              new_rows == RobotNewRows(robot.found_payments, ledger)
          IN  robot' =
                IF ws = None THEN Exit(1, "Sheets Auth Failed")
                ELSE IF ~readOk THEN Exit(1, "Fatal Error")
                ELSE IF new_rows = <<>> THEN Exit(0, "none")
                ELSE [robot EXCEPT
                        !.pc = "append",
                        !.calls = Append(@, "read"),
                        !.existing_data = ledger,
                        !.new_rows = new_rows]
    /\ UNCHANGED <<ledger, inbox, page, appended, recVars, harnessVars>>

\* lines 208-210: ws.append_rows(new_rows)
RobotAppend ==
    /\ robot.pc = "append"
    /\ \E appendOk \in BOOLEAN :
          IF appendOk
          THEN /\ ledger' = append_rows(ledger, robot.new_rows)
               /\ appended' = Append(appended,
                                [by |-> "robot", rows |-> robot.new_rows,
                                 reviewed |-> FALSE, confirmed |-> FALSE])
               /\ robot' = Exit(0, "none")
          ELSE /\ robot' = Exit(1, "Fatal Error")
               /\ UNCHANGED <<ledger, appended>>
    /\ UNCHANGED <<inbox, page, recVars, harnessVars>>

\* mutant: the end of a script run clears the flag
FinishedClearsFlag(p) ==
    [p EXCEPT !.pc = "idle", !.trigger = "none", !.messages = <<>>, !.i = 0,
              !.found_payments = <<>>, !.existing_data = <<>>,
              !.new_payments = <<>>, !.calls = <<>>, !.sync_active = FALSE]
\* the end of a script run: its locals are gone, the session state and the
\* widgets on screen stay
Finished(p) ==
    [p EXCEPT !.pc = "idle", !.trigger = "none", !.messages = <<>>, !.i = 0,
              !.found_payments = <<>>, !.existing_data = <<>>,
              !.new_payments = <<>>, !.calls = <<>>]

\* a script run that ends without the data editor on screen
EndRun(p, widgets) ==
    Finished([p EXCEPT !.rendered = widgets, !.shown = <<>>, !.edits = "none"])

\* 6_Payment_Sync.py main(), lines 216-227: a widget event starts a script
\* run; e is the widget, ed the state of the data editor
PageBegin(e, ed) ==
    /\ page.pc = "idle"
    /\ Len(appended) < MaxAppends
    /\ LET sync_active == StartClicked(e) \/ page.sync_active
           run == [page EXCEPT !.trigger = e, !.edits = ed]
       IN  page' =
             IF ~sync_active THEN EndRun(run, {})
             ELSE IF CancelClicked(e)
             THEN EndRun([run EXCEPT !.sync_active = FALSE], {})
             ELSE [run EXCEPT !.sync_active = TRUE, !.pc = "auth",
                              !.rendered = {"cancel"}]
    /\ UNCHANGED <<ledger, inbox, robot, appended, recVars, harnessVars>>

PageStart == PageBegin("start", page.edits)

PageCancel == "cancel" \in page.rendered /\ PageBegin("cancel", page.edits)

PageConfirm == "confirm" \in page.rendered /\ PageBegin("confirm", page.edits)

\* an edit in the data editor starts a script run in which no button is
\* clicked
PageEdit ==
    /\ "editor" \in page.rendered
    /\ \E ed \in Edits :
          /\ EditedRows(page.shown, ed) # EditedRows(page.shown, page.edits)
          /\ PageBegin("none", ed)

\* lines 233-247: the mail session and the query
PageAuth ==
    /\ page.pc = "auth"
    /\ \E service \in PageSessions, listOk \in BOOLEAN :
          page' =
            IF service = Service
            THEN IF listOk
                 THEN [page EXCEPT !.pc = "parse", !.calls = <<"list">>,
                                   !.messages = ListMessages(inbox)]
                 ELSE EndRun(page, {"cancel", "error"})
            ELSE IF service = RerunScript
            THEN [page EXCEPT !.trigger = "none"]
            ELSE IF service = StopScript
            THEN EndRun(page, {"cancel", "authorize"})
            ELSE IF service = None
            THEN EndRun(page, {"cancel", "Authentication failed"})
            ELSE EndRun(page, {"cancel", "error"})
    /\ UNCHANGED <<ledger, inbox, robot, appended, recVars, harnessVars>>

\* lines 252-256: one turn of "for i, msg in enumerate(messages)"
PageParseStep ==
    /\ page.pc = "parse"
    /\ page.i < Len(page.messages)
    /\ \E now \in Clock :
          page' = [page EXCEPT
                    !.i = @ + 1,
                    !.calls = Append(@, "get"),
                    !.found_payments =
                        KeepParsed(@, PageParsed[page.messages[page.i + 1]][now])]
    /\ UNCHANGED <<ledger, inbox, robot, appended, recVars, harnessVars>>

\* lines 260-318: the sheet session, the bulk read, the reconciliation, the
\* data editor and the "Confirm & Save to Sheet" button
PageSheets ==
    /\ page.pc = "parse"
    /\ page.i = Len(page.messages)
    /\ \E gcp \in SheetSecrets, readOk \in BOOLEAN :
          LET ws == get_google_sheet_data(gcp)
              new_payments == PageNewPayments(page.found_payments, ledger)
              df_display == DisplayRows(new_payments)
          IN  page' =
                IF ws = None
                THEN EndRun(page, {"cancel", "Could not connect"})
                ELSE IF ws = Raise THEN EndRun(page, {"cancel", "error"})
                ELSE IF ~readOk THEN EndRun(page, {"cancel", "error"})
                ELSE IF new_payments = <<>>
                THEN EndRun(page, {"cancel", "success"})
                ELSE LET shown == [page EXCEPT
                            !.calls = Append(@, "read"),
                            !.existing_data = ledger,
                            !.new_payments = new_payments,
                            !.shown = df_display,
                            !.edits = IF df_display = page.shown THEN @ ELSE "none",
                            !.rendered = {"cancel", "editor", "confirm"}]
                     IN  IF ConfirmClicked(page.trigger)
                         THEN [shown EXCEPT !.pc = "save"]
                         ELSE Finished(shown)
    /\ UNCHANGED <<ledger, inbox, robot, appended, recVars, harnessVars>>

\* lines 319-323: final_data = edited_df.values.tolist(); ws.append_rows(final_data)
PageSave ==
    /\ page.pc = "save"
    /\ \E appendOk \in BOOLEAN :
          LET final_data == EditedRows(page.shown, page.edits)
          IN  IF appendOk
              THEN /\ ledger' = append_rows(ledger, final_data)
                   /\ appended' =
                        IF final_data = <<>> THEN appended
                        ELSE Append(appended,
                                    [by |-> "page", rows |-> final_data,
                                     reviewed |-> "editor" \in page.rendered,
                                     confirmed |-> ConfirmClicked(page.trigger)])
                   /\ page' = Finished([page EXCEPT
                                          !.rendered = @ \cup {"success"}])
              ELSE /\ UNCHANGED <<ledger, appended>>
                   /\ page' = Finished([page EXCEPT
                                          !.rendered = @ \cup {"error"}])
    /\ UNCHANGED <<inbox, robot, recVars, harnessVars>>

Next ==
    \/ RobotStart \/ RobotParseStep \/ RobotSheets \/ RobotAppend
    \/ PageStart \/ PageCancel \/ PageConfirm \/ PageEdit
    \/ PageAuth \/ PageParseStep \/ PageSheets \/ PageSave

Spec == Init /\ [][Next]_vars

(***************************************************************************)
(* Reconciliation on its own: reconcile(candidates, existingLedgerSnapshot)*)
(* of spec section 4.2, applied to inputs drawn from bounded sets.         *)
(***************************************************************************)
MaxCandidates == 2
MaxSnapshotRows == 2

CandidatePool ==
    { ScenarioCandidate,
      Payment(Date0101, JohnSmith, Amt100short),
      Payment(Date0101, AnaTripic, Amt1000comma),
      Payment(Date0201, AnaTripic, Amt1000plain),
      Payment(Date0101, MCartagena, Amt100),
      Payment(Date0201, CartagenaTripic, ZeroAmount),
      Payment(Date0101, Unknown, ZeroAmount) }

\* Rows as ws.get_all_values() may return them: a header, full rows, a row
\* whose amount carries "$", rows with fewer columns, an empty row.
RowPool ==
    { HeaderRow,
      ScenarioRow,
      <<Date0101, anaTripicPadded, Amt1000dollar>>,
      <<Date0201, Unknown, ZeroAmount, Unknown>>,
      <<Date0101, MCartagena>>,
      <<>> }

PipelineOff ==
    /\ ledger = <<>>
    /\ inbox = <<>>
    /\ robot = RobotIdle
    /\ page = PageIdle
    /\ appended = <<>>

RecInit ==
    /\ reconciler = "none"
    /\ candidates \in SeqsUpTo(CandidatePool, MaxCandidates)
    /\ snapshot \in SeqsUpTo(RowPool, MaxSnapshotRows)
    /\ newRows = <<>>
    /\ stage = "input"
    /\ PipelineOff
    /\ HarnessOff

\* reconcile(C, L): the rows to append
Reconcile(who, C, L) ==
    IF who = "robot" THEN RobotNewRows(C, L) ELSE DisplayRows(PageNewPayments(C, L))

\* N = reconcile(C, L)
RecFirst(who) ==
    /\ stage = "input"
    /\ reconciler' = who
    /\ newRows' = Reconcile(who, candidates, snapshot)
    /\ stage' = "first"
    /\ UNCHANGED <<candidates, snapshot, pipeVars, harnessVars>>

\* L' is L with the rows of N appended unchanged; then reconcile(C, L')
RecSecond ==
    /\ stage = "first"
    /\ snapshot' = snapshot \o newRows
    /\ newRows' = Reconcile(reconciler, candidates, snapshot \o newRows)
    /\ stage' = "second"
    /\ UNCHANGED <<reconciler, candidates, pipeVars, harnessVars>>

RecNext == (\E who \in {"robot", "page"} : RecFirst(who)) \/ RecSecond

SpecReconcile == RecInit /\ [][RecNext]_vars

(***************************************************************************)
(* The two reconciliations side by side, on the inputs above and on a      *)
(* sheet row typed in with its cells one column off.                       *)
(***************************************************************************)
\* "John_Smith"
JohnUnderscoreSmith == <<"J","o","h","n","_","S","m","i","t","h">>

\* a row whose first cell holds the amount, followed by "smith" and "john"
ShiftedRow == <<Amt100, <<"s","m","i","t","h">>, <<"j","o","h","n">>>>

AgreeInit ==
    /\ reconciler = "none"
    /\ candidates \in SeqsUpTo(CandidatePool \cup
                                {Payment(Date0201, JohnUnderscoreSmith, Amt100)},
                               MaxCandidates)
    /\ snapshot \in SeqsUpTo(RowPool \cup {ShiftedRow}, MaxSnapshotRows)
    /\ newRows = <<>>
    /\ stage = "input"
    /\ PipelineOff
    /\ HarnessOff

AgreeNext == \E who \in {"robot", "page"} : RecFirst(who)

SpecAgree == AgreeInit /\ [][AgreeNext]_vars

(***************************************************************************)
(* The extraction on its own: the amount and the sender that                *)
(* parse_interac_email reads out of a text and a subject line, applied to   *)
(* texts put together from fragments.                                       *)
(***************************************************************************)
MaxFragments == 2

\* "$1,234.50", "910.00 CAD", "sent you 20.00", "Amount: 75.00", " ",
\* "received $5.00 from Interac John Smith and",
\* "received $5.00 from  Ana Tripic  and",
\* "received $5.00 from InteInteracrac Bo and", "deposited"
Fragments ==
    { <<"$","1",",","2","3","4",".","5","0">>,
      <<"9","1","0",".","0","0"," ","C","A","D">>,
      <<"s","e","n","t"," ","y","o","u"," ","2","0",".","0","0">>,
      <<"A","m","o","u","n","t",":"," ","7","5",".","0","0">>,
      <<" ">>,
      <<"r","e","c","e","i","v","e","d"," ","$","5",".","0","0"," ","f","r","o","m"," ","I","n","t","e","r","a","c"," ","J","o","h","n"," ","S","m","i","t","h"," ","a","n","d">>,
      <<"r","e","c","e","i","v","e","d"," ","$","5",".","0","0"," ","f","r","o","m"," "," ","A","n","a"," ","T","r","i","p","i","c"," "," ","a","n","d">>,
      <<"r","e","c","e","i","v","e","d"," ","$","5",".","0","0"," ","f","r","o","m"," ","I","n","t","e","I","n","t","e","r","a","c","r","a","c"," ","B","o"," ","a","n","d">>,
      <<"d","e","p","o","s","i","t","e","d">> }

\* "Interac e-Transfer", "You received $1,000.00 from Ana Tripic and more",
\* "received $5.00 from M Cartagena and"
Subjects ==
    { <<"I","n","t","e","r","a","c"," ","e","-","T","r","a","n","s","f","e","r">>,
      <<"Y","o","u"," ","r","e","c","e","i","v","e","d"," ","$","1",",","0","0","0",".","0","0"," ","f","r","o","m"," ","A","n","a"," ","T","r","i","p","i","c"," ","a","n","d"," ","m","o","r","e">>,
      <<"r","e","c","e","i","v","e","d"," ","$","5",".","0","0"," ","f","r","o","m"," ","M"," ","C","a","r","t","a","g","e","n","a"," ","a","n","d">> }

RECURSIVE Concat(_)
Concat(ss) == IF ss = <<>> THEN <<>> ELSE Head(ss) \o Concat(Tail(ss))

Texts == {Concat(ss) : ss \in SeqsUpTo(Fragments, MaxFragments)}

ExtractInit ==
    /\ \E text \in Texts, subject \in Subjects :
          extraction = [stage |-> "input", text |-> text, subject |-> subject]
    /\ parsing = [stage |-> "off"]
    /\ authentication = [stage |-> "off"]
    /\ PipelineOff
    /\ RecOff

\* the amount and the sender of parse_interac_email
Extract ==
    /\ extraction.stage = "input"
    /\ extraction' =
          [stage |-> "extracted",
           text |-> extraction.text,
           subject |-> extraction.subject,
           amount |-> ExtractAmount(extraction.text),
           sender |-> ExtractSender(extraction.text, extraction.subject)]
    /\ UNCHANGED <<parsing, authentication, pipeVars, recVars>>

SpecExtract == ExtractInit /\ [][Extract]_vars

(***************************************************************************)
(* The parsers on their own: parse_interac_email of the robot and of the   *)
(* page, applied to message resources that differ in where the text sits,  *)
(* in the Date header and in the internal timestamp.                       *)
(***************************************************************************)
\* "received $100.00 from John Smith and deposited",
\* "Your funds are deposited", "<p>Ana sent you 1,000.00</p>"
BodyTexts ==
    { <<"r","e","c","e","i","v","e","d"," ","$","1","0","0",".","0","0"," ","f","r","o","m"," ","J","o","h","n"," ","S","m","i","t","h"," ","a","n","d"," ","d","e","p","o","s","i","t","e","d">>,
      <<"Y","o","u","r"," ","f","u","n","d","s"," ","a","r","e"," ","d","e","p","o","s","i","t","e","d">>,
      <<"<","p",">","A","n","a"," ","s","e","n","t"," ","y","o","u"," ","1",",","0","0","0",".","0","0","<","/","p",">">> }

\* where the text of a message sits: in the body of the payload, in its
\* first part, in a part of a part, or nowhere but in the snippet
Places == {"body", "part", "nested", "snippet"}

\* the Date header: one that strptime reads, one it does not, none
DateHeaders == {"rfc2822", "unreadable", "absent"}

\* 2 Jan 2025 09:00:00 UTC as internalDate, 1 Jan 2025 10:00:00 in the header
InternalSeconds == 1735808400

MakePayload(text, place, date) ==
    LET data == [data |-> [utf8 |-> text]]
        headers ==
            <<[name |-> "Subject", value |-> <<"I","n","t","e","r","a","c"," ","e","-","T","r","a","n","s","f","e","r">>]>> \o
            (CASE date = "rfc2822" ->
                    <<[name |-> "Date", value |-> <<"W","e","d",","," ","1"," ","J","a","n"," ","2","0","2","5"," ","1","0",":","0","0",":","0","0"," ","+","0","0","0","0">>]>>
               [] date = "unreadable" ->
                    <<[name |-> "Date", value |-> <<"n","o","t"," ","a"," ","d","a","t","e">>]>>
               [] date = "absent" -> <<>>)
    IN  CASE place = "body" -> [headers |-> headers, body |-> data]
          [] place = "part" ->
                [headers |-> headers, body |-> [size |-> 0],
                 parts |-> <<[mimeType |-> "text/html", body |-> data]>>]
          [] place = "nested" ->
                [headers |-> headers, body |-> [size |-> 0],
                 parts |-> <<[mimeType |-> "multipart/alternative",
                              body |-> [size |-> 0],
                              parts |-> <<[mimeType |-> "text/plain",
                                           body |-> data]>>]>>]
          [] place = "snippet" -> [headers |-> headers, body |-> [size |-> 0]]

\* a resource as messages().get(format='full') gives it; internal tells
\* whether it carries internalDate
MakeMessage(text, place, date, internal) ==
    IF internal
    THEN [payload |-> MakePayload(text, place, date), snippet |-> text,
          internalDate |-> InternalSeconds]
    ELSE [payload |-> MakePayload(text, place, date), snippet |-> text]

ParseInit ==
    /\ \E text \in BodyTexts, place \in Places, date \in DateHeaders,
          internal \in BOOLEAN, now \in Clock :
          parsing = [stage |-> "input", text |-> text, place |-> place,
                     date |-> date, internal |-> internal, now |-> now,
                     message |-> MakeMessage(text, place, date, internal)]
    /\ extraction = [stage |-> "off"]
    /\ authentication = [stage |-> "off"]
    /\ PipelineOff
    /\ RecOff

\* who parses the message, and what comes back
ParseBy(who, record) ==
    /\ parsing.stage = "input"
    /\ parsing' = [stage |-> who, text |-> parsing.text, place |-> parsing.place,
                   date |-> parsing.date, internal |-> parsing.internal,
                   now |-> parsing.now, message |-> parsing.message,
                   record |-> record]
    /\ UNCHANGED <<extraction, authentication, pipeVars, recVars>>

RobotParses == ParseBy("robot", RobotParseResource(parsing.message))

PageParses == ParseBy("page", PageParseResource("m1", parsing.message, parsing.now))

ParseNext == RobotParses \/ PageParses

SpecParse == ParseInit /\ [][ParseNext]_vars

(***************************************************************************)
(* The authentication on its own: get_gmail_service of the robot and of    *)
(* the page, applied to every state of the stored token, outcome of the    *)
(* refresh and of build(), and input of the user at the authorization UI.  *)
(***************************************************************************)
AuthInit ==
    /\ \E token \in GmailTokens, refreshOk \in BOOLEAN, buildOk \in BOOLEAN,
          oauth \in OAuthInputs :
          authentication = [stage |-> "input", token |-> token,
                            refreshOk |-> refreshOk, buildOk |-> buildOk,
                            oauth |-> oauth]
    /\ extraction = [stage |-> "off"]
    /\ parsing = [stage |-> "off"]
    /\ PipelineOff
    /\ RecOff

\* who asks for the mail session, and how the call ends
AuthBy(who, result) ==
    /\ authentication.stage = "input"
    /\ authentication' =
          [stage |-> who, token |-> authentication.token,
           refreshOk |-> authentication.refreshOk,
           buildOk |-> authentication.buildOk,
           oauth |-> authentication.oauth, result |-> result]
    /\ UNCHANGED <<extraction, parsing, pipeVars, recVars>>

RobotAuthenticates ==
    AuthBy("robot", RobotGmailService(authentication.token,
                                      authentication.refreshOk,
                                      authentication.buildOk))

PageAuthenticates ==
    AuthBy("page", PageGmailService(authentication.token,
                                    authentication.refreshOk,
                                    authentication.buildOk,
                                    authentication.oauth))

AuthNext == RobotAuthenticates \/ PageAuthenticates

SpecAuth == AuthInit /\ [][AuthNext]_vars

(***************************************************************************)
(* Scheduled runs one after the other: the robot's main() from the ledger  *)
(* read to the append as one step, each run with the candidates of its own *)
(* inbox page, the sheet returning the rows as they were appended.         *)
(***************************************************************************)
\* the sheet before the first run: never written, a row but no header, a
\* header, or a header and one more row
RunLedgers ==
    {<<>>, <<ScenarioRow>>, <<HeaderRow>>} \cup {<<HeaderRow, row>> : row \in RowPool}

RunsInit ==
    /\ ledger \in RunLedgers
    /\ inbox = <<>>
    /\ robot = RobotIdle
    /\ page = PageIdle
    /\ appended = <<>>
    /\ RecOff
    /\ HarnessOff

\* lines 177-212 of a run whose parse loop found found_payments; a run that
\* finds nothing new appends nothing and leaves the sheet as it is
RobotRun(found_payments) ==
    /\ Len(appended) < MaxAppends
    /\ LET existing_data == ledger
           new_rows == RobotNewRows(found_payments, existing_data)
       IN  /\ new_rows # <<>>
           /\ ledger' = append_rows(ledger, new_rows)
           /\ appended' = Append(appended,
                                 [by |-> "robot", rows |-> new_rows,
                                  reviewed |-> FALSE, confirmed |-> FALSE])
    /\ UNCHANGED <<inbox, robot, page, recVars, harnessVars>>

\* the candidates the runs find: three senders, one of them with the amount
\* written with and without the thousands comma, and a record without amount
RunPool ==
    { ScenarioCandidate,
      Payment(Date0101, AnaTripic, Amt1000comma),
      Payment(Date0201, AnaTripic, Amt1000plain),
      Payment(Date0101, MCartagena, Amt100),
      Payment(Date0101, Unknown, ZeroAmount) }

RunsNext ==
    \E found_payments \in SeqsUpTo(RunPool, MaxCandidates) :
        RobotRun(found_payments)

SpecRuns == RunsInit /\ [][RunsNext]_vars

(***************************************************************************)
(* Claims about the reconciliation                                         *)
(***************************************************************************)
Reconciled == stage \in {"first", "second"}

Range(s) == {s[i] : i \in 1..Len(s)}

\* The loose key as the spec words it: amount with commas removed, "_",
\* the sender lowercased and trimmed.
LooseKey(sender, amount) ==
    SelectSeq(amount, LAMBDA c : c # ",") \o <<"_">> \o StrStrip(StrLower(sender))
CandidateKey(c) == LooseKey(c.sender, c.amount)
NewRowKey(row) == LooseKey(row[2], row[3])

\* the row carries the candidate's date, sender and amount unmodified
FromCandidate(row, c) ==
    Len(row) = 4 /\ row[1] = c.date /\ row[2] = c.sender /\ row[3] = c.amount

\* C1 (as claimed): reconciling the same candidates against the snapshot
\* extended by the first result reports no new row, for every snapshot,
\* the empty one included.
C1_IdempotentOnEverySnapshot == stage = "second" => newRows = <<>>

\* C2 (as claimed): with the snapshot exactly the one row of scenario 7 and
\* the one candidate of scenario 7, no new row is reported.
C2_ScenarioDiscarded ==
    (stage = "first" /\ snapshot = <<ScenarioRow>>
        /\ candidates = <<ScenarioCandidate>>) => newRows = <<>>

EarliestWithKey(k) ==
    CHOOSE i \in 1..Len(candidates) :
        /\ CandidateKey(candidates[i]) = k
        /\ \A j \in 1..(i - 1) : CandidateKey(candidates[j]) # k

C5_ZeroAmountAlwaysInBatch ==
    Reconciled =>
        \A i \in 1..Len(candidates) :
            candidates[i].amount = ZeroAmount
            => \E k \in 1..Len(newRows) : FromCandidate(newRows[k], candidates[i])

\* "contains frag in any letter case"
ContainsAnyCase(s, frag) ==
    \E i \in 0..(Len(s) - Len(frag)) :
        \A j \in 1..Len(frag) : LowerTable[s[i + j]] = LowerTable[frag[j]]

\* C8: every new row's payee label is "Dr. Tripic" when its sender contains
\* "TRIPIC" in any letter case, otherwise "Dr. Cartagena" when it contains
\* "CARTAGENA" in any letter case, otherwise "Unknown".
C8_PayeeLookup ==
    Reconciled =>
        \A k \in 1..Len(newRows) :
            LET sender == newRows[k][2]
                label == newRows[k][4]
            IN  /\ ContainsAnyCase(sender, TRIPIC) => label = DrTripic
                /\ (~ContainsAnyCase(sender, TRIPIC)
                        /\ ContainsAnyCase(sender, CARTAGENA)) => label = DrCartagena
                /\ (~ContainsAnyCase(sender, TRIPIC)
                        /\ ~ContainsAnyCase(sender, CARTAGENA)) => label = Unknown
                /\ label \in {DrTripic, DrCartagena, Unknown}

C8_Witness ==
    /\ Reconciled
    /\ Len(newRows) = 2
    /\ newRows[1][2] = CartagenaTripic /\ newRows[1][4] = DrTripic
    /\ newRows[2][2] = MCartagena /\ newRows[2][4] = DrCartagena

\* rows[k..] can be matched, in order, to candidates cs[i..]
RECURSIVE MatchesInOrder(_, _, _, _)
MatchesInOrder(rows, k, cs, i) ==
    IF k > Len(rows) THEN TRUE
    ELSE IF i > Len(cs) THEN FALSE
    ELSE IF FromCandidate(rows[k], cs[i]) THEN MatchesInOrder(rows, k + 1, cs, i + 1)
    ELSE MatchesInOrder(rows, k, cs, i + 1)

\* C9: the new rows are a subsequence of the candidates (same relative order,
\* date, sender and amount unmodified), so there are never more new rows than
\* candidates.
C9_NewRowsSubsequence ==
    Reconciled =>
        /\ MatchesInOrder(newRows, 1, candidates, 1)
        /\ Len(newRows) <= Len(candidates)

C9_Witness ==
    /\ Reconciled
    /\ Len(candidates) = 2 /\ Len(newRows) = 2
    /\ newRows[1] # newRows[2]
    /\ FromCandidate(newRows[1], candidates[1])
    /\ FromCandidate(newRows[2], candidates[2])

\* the key of a ledger row that has the sender and the amount column
RowKey(row) ==
    SelectSeq(row[3], LAMBDA c : c \notin {"$", ","}) \o <<"_">>
        \o StrStrip(StrLower(row[2]))

\* candidate j is new: no row below the first that has three or more
\* columns carries its key, and no earlier candidate does
NewByWideRows(j) ==
    /\ \A i \in 2..Len(snapshot) :
          Len(snapshot[i]) >= 3 => RowKey(snapshot[i]) # CandidateKey(candidates[j])
    /\ \A k \in 1..(j - 1) : CandidateKey(candidates[k]) # CandidateKey(candidates[j])

\* C20: ragged rows.  For every snapshot the reconciliation gives a result,
\* and the rows it reports are the candidates, each once, whose key is on no
\* row of three or more columns below the header row (and on no earlier
\* candidate): rows with fewer than three columns, empty ones included,
\* reject nothing, rows with three columns reject as rows with four do.
C20_RaggedRowsTolerated ==
    stage = "first" =>
        /\ Len(newRows) = Cardinality({j \in 1..Len(candidates) : NewByWideRows(j)})
        /\ \A j \in 1..Len(candidates) :
              NewByWideRows(j) =>
                  \E r \in 1..Len(newRows) : FromCandidate(newRows[r], candidates[j])

\* a row of three columns, without payee, below the header rejects the
\* candidate that has its key
C20_Witness ==
    /\ stage = "first"
    /\ snapshot = <<HeaderRow, <<Date0101, anaTripicPadded, Amt1000dollar>>>>
    /\ candidates = <<Payment(Date0201, AnaTripic, Amt1000plain)>>
    /\ newRows = <<>>

\* the loose keys of the rows of three or more columns below the first row
KeysBelowFirst ==
    {RowKey(snapshot[i]) : i \in {k \in 2..Len(snapshot) : Len(snapshot[k]) >= 3}}

\* candidate j has the key of the first row and of nothing else: of no row
\* below it and of no earlier candidate
OnlyFirstRowHasKey(j) ==
    /\ snapshot # <<>>
    /\ Len(snapshot[1]) >= 3
    /\ RowKey(snapshot[1]) = CandidateKey(candidates[j])
    /\ CandidateKey(candidates[j]) \notin KeysBelowFirst
    /\ \A k \in 1..(j - 1) : CandidateKey(candidates[k]) # CandidateKey(candidates[j])

\* C26: header-row handling.  The loose keys of the rejection set are those
\* of the rows below the first row, whatever the first row holds, for the
\* robot and for the page; a candidate whose key is on the first row only
\* is reported as new; and for the empty snapshot the rejection set is
\* empty and the reconciliation reports every candidate that is the first
\* of its key.
C26_FirstRowIsHeader ==
    stage = "first" =>
        /\ RobotExistingKeys(snapshot) = KeysBelowFirst
        /\ {LedgerKey(snapshot[i]) : i \in KeyedRows(snapshot)} = KeysBelowFirst
        /\ \A j \in 1..Len(candidates) :
              OnlyFirstRowHasKey(j) =>
                 \E r \in 1..Len(newRows) : FromCandidate(newRows[r], candidates[j])
        /\ snapshot = <<>> =>
              /\ RobotExistingKeys(snapshot) = {}
              /\ PageExistingKeys(snapshot) = {}
              /\ Len(newRows) =
                    Cardinality({CandidateKey(candidates[j]) : j \in 1..Len(candidates)})

\* the first row is a payment row, and the candidate with its key is
\* reported as new
C26_Witness ==
    /\ stage = "first"
    /\ snapshot = <<ScenarioRow>>
    /\ candidates = <<ScenarioCandidate>>
    /\ OnlyFirstRowHasKey(1)
    /\ Len(newRows) = 1
    /\ FromCandidate(newRows[1], ScenarioCandidate)

\* C27 (as claimed): the two reconcilers agree.  Whichever program
\* reconciled, the rows it reports are those the robot computes and those
\* the page computes from the same candidates and the same snapshot: the
\* same candidates, in the same order, with the same payee labels.
C27_ReconcilersAgree ==
    stage = "first" =>
        /\ newRows = RobotNewRows(candidates, snapshot)
        /\ newRows = DisplayRows(PageNewPayments(candidates, snapshot))

(***************************************************************************)
(* Claims about the pipeline                                               *)
(***************************************************************************)
\* C6 (as claimed): in every run, of the robot as of the page, a row whose
\* amount is "0.00" is appended to the ledger only after it was flagged and
\* presented to a human for correction.
C6_ZeroAmountReviewedBeforeStored ==
    \A k \in 1..Len(appended) :
        (\E r \in 1..Len(appended[k].rows) : appended[k].rows[r][3] = ZeroAmount)
        => appended[k].reviewed

\* the page commits: in a script run triggered by "Confirm & Save to Sheet",
\* with the batch in the data editor, it appends the editor's rows
PageCommits ==
    /\ page.pc = "save"
    /\ page.trigger = "confirm"
    /\ {"editor", "confirm"} \subseteq page.rendered
    /\ page.shown # <<>>
    /\ page.shown = DisplayRows(page.new_payments)
    /\ ledger' = ledger \o EditedRows(page.shown, page.edits)
    /\ robot' = robot

\* the robot commits: it appends the batch it computed, as computed
RobotCommits ==
    /\ robot.pc = "append"
    /\ robot.new_rows # <<>>
    /\ ledger' = ledger \o robot.new_rows
    /\ page' = page

\* C7 (as claimed): in every run the ledger changes only by an append made
\* after the batch was exposed in the editor and the confirm event occurred,
\* the rows appended being those of the editor.
C7_EveryAppendConfirmed == [][ledger' # ledger => PageCommits]_vars

\* C7 (amended): the interactive page never commits automatically: it
\* appends only in a script run triggered by the confirm click, after that
\* run has put the batch in the data editor, and it appends the editor's
\* (possibly edited) rows; every other change of the ledger is the robot
\* appending the batch it computed, with no review step.
C7_PageAppendConfirmed == [][ledger' # ledger => (PageCommits \/ RobotCommits)]_vars

C7_Witness ==
    \E k \in 1..Len(appended) :
        /\ appended[k].by = "page"
        /\ appended[k].confirmed
        /\ \E r \in 1..Len(appended[k].rows) : appended[k].rows[r][3] = Amt75
        /\ Len(ledger) >= Len(appended[k].rows)

\* the records of the first n messages of ids that the robot's parser
\* returns, in message order
RECURSIVE RobotRecords(_, _)
RobotRecords(ids, n) ==
    IF n = 0 THEN <<>>
    ELSE RobotRecords(ids, n - 1)
            \o (IF RobotParsed[ids[n]] = None THEN <<>> ELSE <<RobotParsed[ids[n]]>>)

\* the ids among the first n of ids for which the page's parser returns a
\* record, in message order
RECURSIVE PageParsedIds(_, _)
PageParsedIds(ids, n) ==
    IF n = 0 THEN <<>>
    ELSE PageParsedIds(ids, n - 1)
            \o (IF \A now \in Clock : PageParsed[ids[n]][now] = None
                THEN <<>> ELSE <<ids[n]>>)

\* C10: at every point of the parse loop the candidate list holds exactly
\* the records of the messages examined so far that parsed, in message
\* order, a message that fails contributing nothing; and the run goes on to
\* the ledger only when every message has been examined.
C10_FailureIsolation ==
    /\ robot.i <= Len(robot.messages)
    /\ robot.found_payments = RobotRecords(robot.messages, robot.i)
    /\ robot.pc = "append" => robot.i = Len(robot.messages)
    /\ page.i <= Len(page.messages)
    /\ LET ids == PageParsedIds(page.messages, page.i)
       IN  /\ Len(page.found_payments) = Len(ids)
           /\ \A k \in 1..Len(ids) :
                 \E now \in Clock :
                    page.found_payments[k] = PageParsed[ids[k]][now]
    /\ page.pc = "save" => page.i = Len(page.messages)

C10_Witness ==
    /\ robot.pc = "append"
    /\ robot.messages = <<"m4", "m2">>
    /\ RobotParsed["m4"] = None
    /\ robot.found_payments = <<RobotParsed["m2"]>>
    /\ page.pc = "save"
    /\ page.messages = <<"m4", "m2">>
    /\ Len(page.found_payments) = 1
    /\ page.found_payments[1].id = "m2"

\* what st.error may have put on the screen
ErrorMessages == {"error", "Authentication failed", "Could not connect"}

\* C11: no partial commit.  A run whose provider call fails ends in a
\* reported failure (the robot's exit(1), the page's st.error) in that very
\* step, with the ledger as it was; the append step of a run ends the run,
\* either reported as failed or with the ledger followed by the complete
\* batch of the run; and nothing else changes the ledger, so the ledger
\* never holds a proper part of a batch.
C11_NoPartialCommit ==
    [][ /\ (robot' # robot /\ robot'.pc = "exit1") => ledger' = ledger
        /\ (page' # page /\ page'.rendered \cap ErrorMessages # {}) =>
              ledger' = ledger /\ page'.pc = "idle"
        /\ (robot' # robot /\ robot.pc = "append") =>
              /\ robot'.pc \in {"done", "exit1"}
              /\ robot'.pc = "done" => ledger' = ledger \o robot.new_rows
        /\ (page' # page /\ page.pc = "save") =>
              /\ page'.pc = "idle"
              /\ page'.rendered \cap {"success", "error"} # {}
              /\ "success" \in page'.rendered =>
                    ledger' = ledger \o EditedRows(page.shown, page.edits)
        /\ ledger' # ledger =>
              \/ robot.pc = "append" /\ robot'.pc = "done"
              \/ page.pc = "save" /\ "success" \in page'.rendered
      ]_vars

\* a failed append of the page is on screen next to the editor, and the
\* ledger is what it was at the start followed by one complete batch of two
\* rows
C11_Witness ==
    /\ {"editor", "error"} \subseteq page.rendered
    /\ Len(appended) = 1
    /\ Len(appended[1].rows) = 2
    /\ \E L \in Ledgers : ledger = L \o appended[1].rows

\* C12 (as claimed): a run that ends because the session to the mail
\* provider or to the ledger store is missing says so and has made no
\* provider call before: no inbox query, no message fetch, no ledger read,
\* no append.
C12_MissingSessionNoPartialWork ==
    [][ /\ (robot' # robot /\ robot'.pc = "exit1"
                /\ robot'.printed \in {"Gmail Auth Failed", "Sheets Auth Failed"})
              => robot.calls = <<>>
        /\ (page' # page
                /\ page'.rendered \cap {"authorize", "Authentication failed",
                                        "Could not connect"} # {})
              => page.calls = <<>>
      ]_vars

\* the rows of the first k successful append_rows calls, in order
RECURSIVE AllAppended(_)
AllAppended(k) ==
    IF k = 0 THEN <<>> ELSE AllAppended(k - 1) \o appended[k].rows

IsPrefix(s, t) == Len(s) <= Len(t) /\ SubSeq(t, 1, Len(s)) = s

\* the payee labels of the fourth column
PayeeLabels == {DrTripic, DrCartagena, Unknown}

\* C21: the ledger is append-only for the pipeline.  At every moment the
\* ledger is the sheet as it was before the first run followed by the
\* batches of the appends made so far, in the order they were made; what a
\* run read from the sheet is still there, row for row at the same
\* positions, when it appends; and every appended row has the four columns
\* date, sender, amount, payee (the payee being one of the labels in the
\* rows the robot computes).
C21_AppendOnly ==
    /\ \E L \in Ledgers : ledger = L \o AllAppended(Len(appended))
    /\ robot.pc = "append" => IsPrefix(robot.existing_data, ledger)
    /\ page.pc = "save" => IsPrefix(page.existing_data, ledger)
    /\ \A k \in 1..Len(appended) :
          \A r \in 1..Len(appended[k].rows) :
             /\ Len(appended[k].rows[r]) = 4
             /\ appended[k].by = "robot" =>
                    appended[k].rows[r][4] \in PayeeLabels

\* the robot is about to append below a sheet that had a header and a row
\* before the first run and to which the page has appended since the robot
\* read it
C21_Witness ==
    /\ robot.pc = "append"
    /\ Len(appended) = 1
    /\ appended[1].by = "page"
    /\ robot.existing_data = <<HeaderRow, ScenarioRow>>
    /\ ledger = robot.existing_data \o appended[1].rows

\* the provider calls of a run that has examined i messages and has, or has
\* not yet, read the ledger
CallsSoFar(i, read) ==
    <<"list">> \o [k \in 1..i |-> "get"] \o (IF read THEN <<"read">> ELSE <<>>)

\* C22 (as claimed): the order of steps within a run.  While a run parses
\* it has queried the inbox once, fetched the messages examined so far and
\* not read the ledger; when it is about to append it has examined every
\* message of the query result and then read the ledger once, in bulk, it
\* has not appended before, and the batch it appends in one call is not
\* empty.
C22_StepOrder ==
    /\ robot.pc = "parse" => robot.calls = CallsSoFar(robot.i, FALSE)
    /\ robot.pc = "append" =>
          /\ robot.i = Len(robot.messages)
          /\ robot.calls = CallsSoFar(Len(robot.messages), TRUE)
          /\ robot.new_rows # <<>>
    /\ page.pc = "parse" => page.calls = CallsSoFar(page.i, FALSE)
    /\ page.pc = "save" =>
          /\ page.i = Len(page.messages)
          /\ page.calls = CallsSoFar(Len(page.messages), TRUE)
          /\ EditedRows(page.shown, page.edits) # <<>>

\* the failure reports of the robot's main(): lines 151, 174 and 215
RobotReports == {"Gmail Auth Failed", "Sheets Auth Failed", "Fatal Error"}

\* C23 (as claimed): nothing propagates uncaught.  A robot process that
\* ends with status 1 has printed one of the failure reports of main(): no
\* run ends by an exception that nothing catches.  (In the page every step
\* from get_gmail_service() to the append is inside the try block of
\* main(), and PageAuth, PageSheets and PageSave turn every exception into
\* the st.error of its handler.)
C23_NothingUncaught == robot.pc = "exit1" => robot.printed \in RobotReports

\* C24: the run-state flag of the page.  sync_active starts false; a step
\* that sets it is the start of a script run by the Start Sync click; a step
\* that clears it is a whole script run, started with the Cancel / Reset
\* button on screen, that makes no provider call, leaves the ledger alone
\* and shows nothing (no step of a run that completes, fails or waits for
\* authorization clears it); and the body of main() is executed only with
\* the flag set.
C24_RunStateFlag ==
    /\ ~page.sync_active
    /\ [][ /\ (~page.sync_active /\ page'.sync_active) =>
                 /\ page.pc = "idle"
                 /\ page'.trigger = "start"
           /\ (page.sync_active /\ ~page'.sync_active) =>
                 /\ page.pc = "idle" /\ page'.pc = "idle"
                 /\ "cancel" \in page.rendered
                 /\ page'.calls = <<>> /\ page'.rendered = {}
                 /\ ledger' = ledger /\ appended' = appended
           /\ (page'.pc # "idle" \/ page'.calls # <<>>) => page'.sync_active
           /\ (page' # page /\ page.pc # "idle") =>
                 page'.sync_active = page.sync_active
         ]_vars

\* the flag was set, a sync ran to its append and left the flag set, and
\* Cancel / Reset has cleared it since
C24_Witness ==
    /\ ~page.sync_active
    /\ page.pc = "idle"
    /\ \E k \in 1..Len(appended) : appended[k].by = "page"

\* the last append was made by the page, and the sync the page ran last
\* came after it
SyncAfterPageSave ==
    /\ appended # <<>>
    /\ appended[Len(appended)].by = "page"
    /\ page.pc = "idle"
    /\ "success" \notin page.rendered \/ "editor" \notin page.rendered

\* C29 (as claimed): saved corrections are not offered again.  On a sheet
\* with a header row, when Confirm & Save has appended the batch of the
\* editor, as shown or with amounts corrected, the next sync of the page
\* over the same inbox does not put new payments in the editor.
C29_SavedCorrectionsNotReoffered ==
    (Len(ledger) > Len(AllAppended(Len(appended))) /\ ledger[1] = HeaderRow
        /\ SyncAfterPageSave)
    => "editor" \notin page.rendered

KeysDistinct(rows) ==
    \A i, j \in 1..Len(rows) : i # j => RowKey(rows[i]) # RowKey(rows[j])

\* a run that read existing_data, a sheet with a header, is at its append,
\* and one other append has been made since it read
OtherAppendSince(existing_data) ==
    /\ existing_data # <<>>
    /\ existing_data[1] = HeaderRow
    /\ appended # <<>>
    /\ Len(ledger) = Len(existing_data) + Len(appended[Len(appended)].rows)

\* C30 (as claimed): overlapping runs do not double-insert.  When a run
\* appends after another run, which read the same sheet, has appended in
\* between, the rows that the two runs have added below what they read
\* have pairwise different loose keys.
C30_OverlapNoDoubleInsert ==
    [][ /\ (robot.pc = "append" /\ OtherAppendSince(robot.existing_data)
                /\ ledger' # ledger /\ robot' # robot) =>
              KeysDistinct(SubSeq(ledger', Len(robot.existing_data) + 1,
                                  Len(ledger')))
        /\ (page.pc = "save" /\ OtherAppendSince(page.existing_data)
                /\ ledger' # ledger /\ page' # page) =>
              KeysDistinct(SubSeq(ledger', Len(page.existing_data) + 1,
                                  Len(ledger')))
      ]_vars

(***************************************************************************)
(* Claims about the extraction                                             *)
(***************************************************************************)
Extracted == extraction.stage = "extracted"

\* pattern n matches somewhere in t
Matches(n, t) == \E i \in 1..Len(t) : PatternAt(n, t, i) # NoMatch

\* digits, "." and exactly two digits: 1234.50
PlainNumber(a) ==
    /\ Len(a) >= 4
    /\ a[Len(a) - 2] = "."
    /\ \A i \in 1..Len(a) : i # Len(a) - 2 => a[i] \in Digits

\* one to three digits, groups of "," and three digits, "." and exactly two
\* digits: 1,234.50
GroupedNumber(a) ==
    /\ Len(a) >= 4
    /\ a[Len(a) - 2] = "."
    /\ a[Len(a) - 1] \in Digits /\ a[Len(a)] \in Digits
    /\ a[1] \in Digits
    /\ \A i \in 1..(Len(a) - 3) :
          IF (Len(a) - 2 - i) % 4 = 0 THEN a[i] = "," ELSE a[i] \in Digits

Interac == <<"I","n","t","e","r","a","c">>

\* the sender phrase matches somewhere in t
SenderMatches(t) == \E i \in 1..Len(t) : SenderAt(t, i) # NoMatch

\* the name between "from " and " and" of the leftmost match in t
NameIn(t) ==
    LET i == CHOOSE k \in 1..Len(t) :
                /\ SenderAt(t, k) # NoMatch
                /\ \A j \in 1..(k - 1) : SenderAt(t, j) = NoMatch
    IN  SubSeq(t, SenderAt(t, i)[1], SenderAt(t, i)[2])

\* the extracted sender before the clean-up
ExtractedName ==
    IF SenderMatches(extraction.text) THEN NameIn(extraction.text)
    ELSE IF SenderMatches(extraction.subject) THEN NameIn(extraction.subject)
    ELSE Unknown

Trimmed(s) == s = <<>> \/ (~IsSpace(s[1]) /\ ~IsSpace(s[Len(s)]))

\* the characters of s occur in t in the same order
RECURSIVE IsSubsequence(_, _)
IsSubsequence(s, t) ==
    IF s = <<>> THEN TRUE
    ELSE IF t = <<>> THEN FALSE
    ELSE IF Head(s) = Head(t) THEN IsSubsequence(Tail(s), Tail(t))
    ELSE IsSubsequence(s, Tail(t))

\* C15 (as claimed): the cleaned sender never contains "Interac" and has no
\* leading or trailing whitespace.
C15_CleanedNeverContainsToken ==
    Extracted =>
        /\ ~StrContains(extraction.sender, Interac)
        /\ Trimmed(extraction.sender)

\* C15 (amended): the cleaned sender has no leading or trailing whitespace;
\* a name without the token is returned trimmed and otherwise unchanged; a
\* name with the token loses every occurrence found in one pass from the
\* left and is trimmed ("Interac John Smith" becomes "John Smith"), so the
\* result holds the token only where the removal itself joined one
\* ("InteInteracrac Bo" becomes "Interac Bo").
C15_SenderCleanup ==
    Extracted =>
        /\ Trimmed(extraction.sender)
        /\ ~StrContains(ExtractedName, Interac) =>
              extraction.sender = StrStrip(ExtractedName)
        /\ StrContains(ExtractedName, Interac) =>
              /\ Len(extraction.sender) <= Len(ExtractedName) - Len(Interac)
              /\ IsSubsequence(extraction.sender, ExtractedName)
        /\ ExtractedName = <<"I","n","t","e","r","a","c"," ","J","o","h","n"," ","S","m","i","t","h">> =>
              extraction.sender = <<"J","o","h","n"," ","S","m","i","t","h">>
        /\ ExtractedName = <<"I","n","t","e","I","n","t","e","r","a","c","r","a","c"," ","B","o">> =>
              extraction.sender = <<"I","n","t","e","r","a","c"," ","B","o">>
        /\ StrContains(extraction.sender, Interac) =>
              ExtractedName = <<"I","n","t","e","I","n","t","e","r","a","c","r","a","c"," ","B","o">>

C15_Witness ==
    /\ Extracted
    /\ ExtractedName = <<"I","n","t","e","r","a","c"," ","J","o","h","n"," ","S","m","i","t","h">>
    /\ extraction.sender = <<"J","o","h","n"," ","S","m","i","t","h">>

\* the sender is the name, cleaned up
SenderFrom(name) ==
    /\ IsSubsequence(extraction.sender, name)
    /\ ~StrContains(name, Interac) => extraction.sender = StrStrip(name)

\* C16: the sender comes from the phrase "received $<amount> from <name>
\* and" in the body text whenever the phrase matches there, whatever the
\* subject holds; from the subject only when the body does not match; and
\* is "Unknown" when neither matches.
C16_SenderFallbackOrder ==
    Extracted =>
        IF SenderMatches(extraction.text)
        THEN SenderFrom(NameIn(extraction.text))
        ELSE IF SenderMatches(extraction.subject)
        THEN SenderFrom(NameIn(extraction.subject))
        ELSE extraction.sender = Unknown

\* body and subject both match, with different names, and the body wins
C16_Witness ==
    /\ Extracted
    /\ SenderMatches(extraction.text)
    /\ SenderMatches(extraction.subject)
    /\ NameIn(extraction.subject) = <<"M"," ","C","a","r","t","a","g","e","n","a">>
    /\ NameIn(extraction.text) = <<"I","n","t","e","r","a","c"," ","J","o","h","n"," ","S","m","i","t","h">>
    /\ extraction.sender = <<"J","o","h","n"," ","S","m","i","t","h">>

\* where pattern n matches first in t
FirstAt(n, t) ==
    CHOOSE i \in 1..Len(t) :
        /\ PatternAt(n, t, i) # NoMatch
        /\ \A j \in 1..(i - 1) : PatternAt(n, t, j) = NoMatch

\* group 1 of the leftmost match of pattern n in t
CaptureOf(n, t) == SubSeq(t, PatternAt(n, t, FirstAt(n, t))[1],
                          PatternAt(n, t, FirstAt(n, t))[2])

\* C17: the amount is the capture of the first pattern, in the order 1 to
\* 4, that matches anywhere in the text; the capture of a later pattern is
\* used only when no earlier pattern matches, wherever in the text the
\* matches lie.
C17_FirstPatternWins ==
    Extracted =>
        \A n \in 1..4 :
            (Matches(n, extraction.text)
                /\ \A k \in 1..(n - 1) : ~Matches(k, extraction.text))
            => extraction.amount = CaptureOf(n, extraction.text)

\* pattern 4 matches before pattern 1 does, and the capture of pattern 1 is
\* the amount
C17_Witness ==
    /\ Extracted
    /\ extraction.text = <<"A","m","o","u","n","t",":"," ","7","5",".","0","0","$","1",",","2","3","4",".","5","0">>
    /\ Matches(4, extraction.text) /\ Matches(1, extraction.text)
    /\ FirstAt(4, extraction.text) < FirstAt(1, extraction.text)
    /\ CaptureOf(4, extraction.text) = <<"7","5",".","0","0">>
    /\ extraction.amount = <<"1",",","2","3","4",".","5","0">>

(***************************************************************************)
(* Claims about the parsers                                                *)
(***************************************************************************)
Parsed == parsing.stage \in {"robot", "page"}

\* what the parser that acted returns for the message with another text
ParseOther(text) ==
    LET message == MakeMessage(text, parsing.place, parsing.date, parsing.internal)
    IN  IF parsing.stage = "robot" THEN RobotParseResource(message)
        ELSE PageParseResource("m1", message, parsing.now)

\* the mark of a low-confidence record is its amount: the page finds the
\* records to explain by  p['amount'] == "0.00"
LowConfidence(record) == record.amount = ZeroAmount

\* C14: when none of the four patterns matches in the body, that is no
\* reason for the parser to return nothing (it returns a record whenever it
\* does so for the same message with another body text), and the record it
\* returns has the amount "0.00", which marks it low-confidence.
C14_NoAmountGivesZeroRecord ==
    (Parsed /\ \A n \in 1..4 : ~Matches(n, parsing.text)) =>
        /\ parsing.record = None =>
              \A text \in BodyTexts : ParseOther(text) = None
        /\ parsing.record # None =>
              /\ parsing.record.amount = <<"0",".","0","0">>
              /\ LowConfidence(parsing.record)

C14_Witness ==
    /\ parsing.stage = "page"
    /\ parsing.text = <<"Y","o","u","r"," ","f","u","n","d","s"," ","a","r","e"," ","d","e","p","o","s","i","t","e","d">>
    /\ \A n \in 1..4 : ~Matches(n, parsing.text)
    /\ parsing.record # None
    /\ parsing.record.amount = <<"0",".","0","0">>

\* what the parser that acted returns for the message with other date sources
ParseOtherDates(date, internal) ==
    LET message == MakeMessage(parsing.text, parsing.place, date, internal)
    IN  IF parsing.stage = "robot" THEN RobotParseResource(message)
        ELSE PageParseResource("m1", message, parsing.now)

\* C18 (as claimed): the timestamp never costs the record (the parser
\* returns a record whenever it does so for the same message with a
\* readable Date header and an internal timestamp); the date of the record
\* is the internal timestamp when the message carries one, whatever the
\* Date header holds, and the current processing time when it does not.
C18_TimestampNeverAborts ==
    Parsed =>
        /\ parsing.record = None => ParseOtherDates("rfc2822", TRUE) = None
        /\ parsing.record # None =>
              parsing.record.date =
                  IF parsing.internal
                  THEN Strftime(FromTimestamp(InternalSeconds))
                  ELSE Strftime(parsing.now)

\* what the parser that acted returns when the text is the body of the message
ParseAsBody ==
    LET message == MakeMessage(parsing.text, "body", parsing.date, parsing.internal)
    IN  IF parsing.stage = "robot" THEN RobotParseResource(message)
        ELSE PageParseResource("m1", message, parsing.now)

\* C19 (as claimed): a message with no body data, whose text is only in the
\* snippet, is parsed from the snippet: the parser returns what it returns
\* for a message that carries the same text as its body, a record whenever
\* that is a record.
C19_SnippetInPlaceOfBody ==
    (Parsed /\ parsing.place = "snippet") => parsing.record = ParseAsBody

(***************************************************************************)
(* Claims about the authentication                                         *)
(***************************************************************************)
\* C28 (as claimed): the page's get_gmail_service() hands out a mail
\* session only for valid credentials.  It returns a service only when the
\* stored token is valid or was refreshed successfully (after a successful
\* code exchange the script is run again and the new token is the stored
\* one); and for a stored token that is invalid and cannot be refreshed it
\* starts the new authentication, returns None or halts.
C28_ServiceOnlyForValidCredentials ==
    authentication.stage = "page" =>
        /\ authentication.result = Service =>
              \/ authentication.token = "valid"
              \/ authentication.token = "expired_refreshable"
                    /\ authentication.refreshOk
        /\ authentication.token \in {"invalid", "expired_no_refresh_token"} =>
              authentication.result \in {StopScript, RerunScript, None}

(***************************************************************************)
(* Claims about runs one after the other                                   *)
(***************************************************************************)
\* the rows the runs have appended, and the number of rows the sheet had
\* before the first run
AppendedRows == AllAppended(Len(appended))
RowsBefore == Len(ledger) - Len(AppendedRows)

\* C25: no duplicates across runs.  When the sheet had a header row as its
\* first row before the first run, then after any number of robot runs, one
\* after the other, no two appended rows have the same loose key, and no
\* appended row has the loose key of a row of three or more columns that
\* was below the header before the first run.
C25_NoDuplicatesAcrossRuns ==
    (RowsBefore >= 1 /\ ledger[1] = HeaderRow) =>
        /\ \A i, j \in 1..Len(AppendedRows) :
              i # j => RowKey(AppendedRows[i]) # RowKey(AppendedRows[j])
        /\ \A i \in 1..Len(AppendedRows) :
              \A r \in 2..RowsBefore :
                 Len(ledger[r]) >= 3 => RowKey(ledger[r]) # RowKey(AppendedRows[i])

\* two runs have appended below a header and a data row, the second run a
\* single row although the sheet held three rows with other keys
C25_Witness ==
    /\ RowsBefore = 2
    /\ ledger[1] = HeaderRow
    /\ Len(ledger[2]) >= 3
    /\ Len(appended) = 2
    /\ Len(appended[1].rows) = 2
    /\ Len(appended[2].rows) = 1

====
